---- MODULE Spec2Model ----
(***************************************************************************)
(* Duplicate-media detector bot (volekerb/spam-channel-bot).               *)
(*                                                                         *)
(* The store is the MongoDB database 'duplicate_detector' with the         *)
(* collections media, userStats, duplicates and textMessages.  Every       *)
(* 'message' update starts one run of the async handler; a run gives up    *)
(* the event loop at each await, so the runs of several updates            *)
(* interleave at those points and nowhere else.                            *)
(*                                                                         *)
(* The handler is that of the current script (src/unnamed/part_000);       *)
(* src/bot.js is the same without the textMessages collection.             *)
(*                                                                         *)
(* A fingerprint is the string hashMedia returns: 64 hex characters, both  *)
(* for the block hash of image-hash (16 x 16 bits) and for the SHA-256 hex *)
(* digest.  It is modelled as a sequence of hex digits 0..15 of length     *)
(* HashLen.                                                                *)
(***************************************************************************)
EXTENDS Integers, Sequences, FiniteSets, TLC

VARIABLES
    media,          \* collection 'media', in natural (insertion) order
    userStats,      \* collection 'userStats', in natural order
    duplicates,     \* collection 'duplicates', in natural order
    textMessages,   \* collection 'textMessages', in natural order
    handlers,       \* one run of the 'message' handler per update received
    sent,           \* duplicate notifications delivered by bot.sendMessage
    now,            \* the next reading of the clock (new Date())
    query,          \* the last direct application of findSimilarMedia
    downloads,      \* the files of the directory 'downloads', by name
    hashCalls,      \* the calls of hashMedia followed through their steps
    report,         \* the run of generateWeeklyStats that is followed
    messageReactions, \* collection 'messageReactions', in natural order
    reacted,        \* the reactions each user has on each message, at Telegram
    updates,        \* one run of a reaction listener per reaction update
    cron,           \* the run of the weekly job that is followed
    chatTypes,      \* the type of each chat, at Telegram
    responses,      \* the answers of the endpoint /webhook, in order
    clock           \* the time of day, as lastActive and firstSeen take it

\* the state of hashMedia with its temporary files
hashVars == <<downloads, hashCalls>>

\* the reactions: what the store holds, what Telegram holds, and the
\* listeners of message_reaction and message_reaction_count
reactVars == <<messageReactions, reacted, updates>>

\* the weekly job with the chats it asks about, the webhook endpoint, and
\* the time of day
jobVars == <<cron, chatTypes, responses, clock>>

vars == <<media, userStats, duplicates, textMessages, handlers, sent, now, query,
          hashVars, report, reactVars, jobVars>>

----------------------------------------------------------------------------
(* Bounds *)

\* length of a fingerprint string (64 in the program)
HashLen == 8
\* updates received in one behaviour
MaxEvents == 2
\* records inserted directly into the index
MaxStore == 2
\* similarityThreshold = 5, the default parameter of findSimilarMedia
DefaultThreshold == 5

Users == {1, 2}
\* msg.chat.id of two supergroups the bot is a member of
Chats == {0 - 1001, 0 - 1002}
MainChat == 0 - 1001

\* process.env.TELEGRAM_GROUP_ID: a string, the decimal form of a chat id,
\* or the empty string when the variable is not set
String(minus, digits) == [minus |-> minus, digits |-> digits]
NoGroupId == String(FALSE, << >>)

\* the weekly job before it runs
NoCron ==
    [pc |-> "idle", groupId |-> NoGroupId, uniqueChats |-> << >>, i |-> 0,
     errors |-> {}]

\* bot.getChat(chatId).type of the chats the bot is in
NoChatTypes == [c \in Chats |-> "supergroup"]
\* message ids that reactions are given to
MaxReacted == 2
ReactKeys == {<<c, m>> : c \in Chats, m \in 1..MaxReacted}
\* nobody has reacted to anything
NoReacted == [k \in ReactKeys |-> [u \in Users |-> 0]]
MediaKinds == {"photo", "video", "document"}

\* null: no document
None == [null |-> TRUE]

----------------------------------------------------------------------------
(* Fingerprints *)

Rep(d) == [i \in 1..HashLen |-> d]
Flip(k, d) == [i \in 1..HashLen |-> IF i <= k THEN d ELSE 0]
Short(d) == [i \in 1..(HashLen - 1) |-> d]

\* The fingerprints the index is exercised with: a base value, two values
\* at 1 differing position from it (by one bit and by two bits), values at
\* 5 and 6 differing positions from it, one of another length and the
\* empty string.
FindHashes ==
    { Flip(0, 0), Flip(1, 1), Flip(1, 3), Flip(5, 3), Flip(6, 1),
      Short(0), << >> }

Thresholds == {0, DefaultThreshold}

----------------------------------------------------------------------------
(* calculateHashDistance and findSimilarMedia *)

\* A JavaScript number that is a count or Infinity, and a <= b and a < b
\* on such numbers
Num(n) == [inf |-> FALSE, n |-> n]
Infinity == [inf |-> TRUE, n |-> 0]
Leq(a, b) == IF a.inf THEN b.inf ELSE (b.inf \/ a.n <= b.n)
Less(a, b) == IF a.inf THEN FALSE ELSE (b.inf \/ a.n < b.n)

RECURSIVE CountDiff(_, _, _)
CountDiff(hash1, hash2, i) ==
    IF i > Len(hash1) THEN 0
    ELSE (IF hash1[i] /= hash2[i] THEN 1 ELSE 0) + CountDiff(hash1, hash2, i + 1)

\* calculateHashDistance without the comparison of the lengths: hash2[i] is
\* undefined past the end of hash2 and differs from every character
calculateHashDistanceNoLength(hash1, hash2) ==
    Num(Cardinality({i \in 1..Len(hash1) : i > Len(hash2) \/ hash1[i] /= hash2[i]}))

calculateHashDistance(hash1, hash2) ==
    IF hash1 = << >> \/ hash2 = << >> \/ Len(hash1) /= Len(hash2)
    THEN Infinity
    ELSE Num(CountDiff(hash1, hash2, 1))

\* every kind takes the tolerant scan
IsPerceptualKindAlways(mediaType) == mediaType = mediaType

IsPerceptualKind(mediaType) == mediaType = "photo" \/ mediaType = "document"

\* a lookup by hash that finds nothing
FindOneByHashNone(coll, hash, i) == None

\* db.collection('media').findOne({ hash })
RECURSIVE FindOneByHash(_, _, _)
FindOneByHash(coll, hash, i) ==
    IF i > Len(coll) THEN None
    ELSE IF coll[i].hash = hash THEN coll[i]
    ELSE FindOneByHash(coll, hash, i + 1)

\* the loop body without the comparison with lowestDistance
SimilarStepAnyWithin(st, m, hash, similarityThreshold) ==
    LET distance == calculateHashDistance(hash, m.hash) IN
    IF Leq(distance, Num(similarityThreshold))
    THEN <<m, distance>>
    ELSE st

\* the loop body with distance <= lowestDistance
SimilarStepLastTie(st, m, hash, similarityThreshold) ==
    LET distance == calculateHashDistance(hash, m.hash) IN
    IF Leq(distance, Num(similarityThreshold)) /\ Leq(distance, st[2])
    THEN <<m, distance>>
    ELSE st

\* the loop over allMedia; st = <<mostSimilar, lowestDistance>>
SimilarStep(st, m, hash, similarityThreshold) ==
    LET distance == calculateHashDistance(hash, m.hash) IN
    IF Leq(distance, Num(similarityThreshold)) /\ Less(distance, st[2])
    THEN <<m, distance>>
    ELSE st

RECURSIVE ScanSimilar(_, _, _, _, _)
ScanSimilar(allMedia, hash, similarityThreshold, i, st) ==
    IF i > Len(allMedia) THEN st
    ELSE ScanSimilar(allMedia, hash, similarityThreshold, i + 1,
                     SimilarStep(st, allMedia[i], hash, similarityThreshold))

PerceptualRecords(coll) == SelectSeq(coll, LAMBDA m : IsPerceptualKind(m.mediaType))

findSimilarMedia(coll, hash, mediaType, similarityThreshold) ==
    IF ~IsPerceptualKind(mediaType)
    THEN FindOneByHash(coll, hash, 1)
    ELSE ScanSimilar(PerceptualRecords(coll), hash, similarityThreshold, 1,
                     <<None, Num(similarityThreshold + 1)>>)[1]

----------------------------------------------------------------------------
(* The index used directly: insert(record) and findMatch *)

MediaDoc(hash, msgId, userId, mediaType, ts, chatId) ==
    [hash |-> hash, originalMessageId |-> msgId, userId |-> userId,
     mediaType |-> mediaType, timestamp |-> ts, chatId |-> chatId]

NoQuery == [hash |-> << >>, mediaType |-> "none", threshold |-> 0, result |-> None]

\* insert(record): db.collection('media').insertOne, stamped new Date().
\* Successive readings of the clock are increasing.
IndexInsert(hash, userId, mediaType) ==
    /\ query = NoQuery
    /\ Len(media) < MaxStore
    /\ media' = Append(media, MediaDoc(hash, Len(media) + 1, userId, mediaType, now, MainChat))
    /\ now' = now + 1
    /\ UNCHANGED <<jobVars, hashVars, reactVars, report, userStats, duplicates, textMessages, handlers, sent, query>>

\* findMatch: one application of findSimilarMedia to the index as built
IndexFind(hash, mediaType, similarityThreshold) ==
    /\ query = NoQuery
    /\ query' = [hash |-> hash, mediaType |-> mediaType,
                 threshold |-> similarityThreshold,
                 result |-> findSimilarMedia(media, hash, mediaType, similarityThreshold)]
    /\ UNCHANGED <<jobVars, hashVars, reactVars, report, media, userStats, duplicates, textMessages, handlers, sent, now>>

FindInit ==
    /\ media = << >>
    /\ userStats = << >>
    /\ duplicates = << >>
    /\ textMessages = << >>
    /\ handlers = << >>
    /\ sent = << >>
    /\ now = 0
    /\ query = NoQuery
    /\ downloads = << >>
    /\ hashCalls = << >>
    /\ report = << >>
    /\ messageReactions = << >>
    /\ reacted = NoReacted
    /\ updates = << >>
    /\ cron = NoCron
    /\ chatTypes = NoChatTypes
    /\ responses = << >>
    /\ clock = 0

FindNext ==
    \/ \E h \in FindHashes, t \in MediaKinds : IndexInsert(h, 1, t)
    \/ \E h \in FindHashes, t \in MediaKinds, th \in Thresholds : IndexFind(h, t, th)

FindSpec == FindInit /\ [][FindNext]_vars

----------------------------------------------------------------------------
(* hashMedia *)

\* The media buffers posted: an image, a recompressed copy of it, and a
\* buffer that image-hash cannot decode.
Buffers == {"X", "Xr", "Zc"}

\* The media updates received: kind and buffer
MediaPosts ==
    { <<"photo", "X">>, <<"document", "Xr">>, <<"photo", "Zc">>, <<"video", "X">> }

\* imageHash.imageHash(path, 16, true, callback): the callback's error
imageHashError(buf) == buf = "Zc"

\* imageHash.imageHash(path, 16, true, callback): the callback's hash
imageHashValue(buf) == IF buf = "X" THEN Flip(0, 0) ELSE Flip(1, 1)

\* crypto.createHash('sha256').update(media).digest('hex'): a string of the
\* same length as a block hash.  The digests of X and Xr are far from every
\* other fingerprint; the digest of Zc differs from the block hash of X in
\* one character.
cryptoHash(buf) ==
    IF buf = "X" THEN Rep(7) ELSE IF buf = "Xr" THEN Rep(9) ELSE Flip(1, 3)

\* hashMedia falling back to the digest for every kind
hashMediaDigestOnly(buf, mediaType) == cryptoHash(buf)

hashMedia(buf, mediaType) ==
    IF mediaType = "photo" \/ mediaType = "document"
    THEN IF imageHashError(buf) THEN cryptoHash(buf) ELSE imageHashValue(buf)
    ELSE cryptoHash(buf)

----------------------------------------------------------------------------
(* userStats documents *)

\* a field the document does not have
Absent == -1

Inc(v) == IF v = Absent THEN 1 ELSE v + 1

\* the document updateUserStatistics inserts; new Date() was read when
\* insertOne was called
NewUserStats(userId, mediaType, date) ==
    [userId |-> userId,
     photoCount |-> IF mediaType = "photo" THEN 1 ELSE 0,
     videoCount |-> IF mediaType = "video" THEN 1 ELSE 0,
     documentCount |-> IF mediaType = "document" THEN 1 ELSE 0,
     textCount |-> IF mediaType = "text" THEN 1 ELSE 0,
     duplicatesPosted |-> 0,
     totalMessages |-> 1,
     firstSeen |-> date,
     lastActive |-> date]

\* the document the upsert of trackDuplicate inserts
UpsertedUserStats(userId, date) ==
    [userId |-> userId,
     photoCount |-> Absent, videoCount |-> Absent, documentCount |-> Absent,
     textCount |-> Absent,
     duplicatesPosted |-> 1,
     totalMessages |-> Absent,
     firstSeen |-> Absent,
     lastActive |-> date]

\* position of the first document of the user, 0 when there is none
RECURSIVE FirstOf(_, _, _)
FirstOf(coll, userId, i) ==
    IF i > Len(coll) THEN 0
    ELSE IF coll[i].userId = userId THEN i
    ELSE FirstOf(coll, userId, i + 1)

\* the $inc without totalMessages
IncCountsKindOnly(doc, mediaType) ==
    [doc EXCEPT
        !.photoCount = IF mediaType = "photo" THEN Inc(@) ELSE @,
        !.videoCount = IF mediaType = "video" THEN Inc(@) ELSE @,
        !.documentCount = IF mediaType = "document" THEN Inc(@) ELSE @,
        !.textCount = IF mediaType = "text" THEN Inc(@) ELSE @]

\* $inc: { [`${mediaType}Count`]: 1, totalMessages: 1 }
IncCounts(doc, mediaType) ==
    [doc EXCEPT
        !.photoCount = IF mediaType = "photo" THEN Inc(@) ELSE @,
        !.videoCount = IF mediaType = "video" THEN Inc(@) ELSE @,
        !.documentCount = IF mediaType = "document" THEN Inc(@) ELSE @,
        !.textCount = IF mediaType = "text" THEN Inc(@) ELSE @,
        !.totalMessages = Inc(@)]

\* userStats.updateOne({ userId }, { $inc: ..., $set: { username,
\* lastActive: new Date() } }): the first match, if any
UpdateCounts(coll, userId, mediaType, date) ==
    LET i == FirstOf(coll, userId, 1) IN
    IF i = 0 THEN coll
    ELSE [coll EXCEPT ![i] = [IncCounts(@, mediaType) EXCEPT !.lastActive = date]]

\* userStats.updateOne({ userId }, { $inc: { duplicatesPosted: 1 },
\* $set: { username, lastActive: new Date() } }, { upsert: true })
UpsertDuplicate(coll, userId, date) ==
    LET i == FirstOf(coll, userId, 1) IN
    IF i = 0 THEN Append(coll, UpsertedUserStats(userId, date))
    ELSE [coll EXCEPT ![i].duplicatesPosted = Inc(@), ![i].lastActive = date]

----------------------------------------------------------------------------
(* The 'message' handler *)

Events == 1..MaxEvents

\* the run of the handler for update e has not started, is suspended at an
\* await, or has returned
Terminal == {"accepted", "duplicate", "ignored", "dropped", "aborted", "replied"}

\* the awaits whose rejection reaches the catch of the handler
Throwing ==
    {"fetch", "find", "send", "trackUpdate", "trackInsert",
     "insertMedia", "statsFind", "statsWrite", "textInsert"}

\* the process is alive: no rejection has left the listener, which would
\* end the process as an unhandled rejection; the whole body of the
\* listener is inside try { ... } catch (error) { console.error(...) }
Listening == \A e \in Events : handlers[e].pc /= "crashed"

Handler(pc, chatId, userId, mediaType, buf) ==
    [pc |-> pc, chatId |-> chatId, userId |-> userId, mediaType |-> mediaType, buf |-> buf,
     mediaHash |-> << >>, existingMedia |-> None, userStatsFound |-> FALSE,
     outcome |-> "Unseen", command |-> "none", isValidGroup |-> "none", date |-> 0]

NoHandler == Handler("idle", 0, 0, "none", "none")

\* the handler returns: its local variables are gone; the update received
\* and what became of it are kept
Return(h, pc) ==
    [h EXCEPT !.pc = pc, !.mediaHash = << >>, !.existingMedia = None,
              !.userStatsFound = FALSE, !.date = 0]

Init ==
    /\ media = << >>
    /\ userStats = << >>
    /\ duplicates = << >>
    /\ textMessages = << >>
    /\ handlers = [e \in Events |-> NoHandler]
    /\ sent = << >>
    /\ now = 0
    /\ query = NoQuery
    /\ downloads = << >>
    /\ hashCalls = << >>
    /\ report = << >>
    /\ messageReactions = << >>
    /\ reacted = NoReacted
    /\ updates = << >>
    /\ cron = NoCron
    /\ chatTypes = NoChatTypes
    /\ responses = << >>
    /\ clock = 0

\* updates are numbered in the order of arrival and message_id is that
\* number
IsNextUpdate(e) == IF e = 1 THEN TRUE ELSE handlers[e - 1].pc /= "idle"

\* msg.from.id: the code treats all user ids alike, and the author of the
\* first update is called 1
Authors(e) == IF e = 1 THEN {1} ELSE Users

\* an update with a photo, a video or an image document arrives
ReceiveMedia(e, chatId, userId, mediaType, buf) ==
    /\ handlers[e].pc = "idle"
    /\ IsNextUpdate(e)
    /\ Listening
    /\ handlers' = [handlers EXCEPT ![e] = Handler("isGroup", chatId, userId, mediaType, buf)]
    /\ UNCHANGED <<jobVars, hashVars, reactVars, report, media, userStats, duplicates, textMessages, sent, now, query>>

\* an update with a text that is no command arrives
ReceiveText(e, userId) ==
    /\ handlers[e].pc = "idle"
    /\ IsNextUpdate(e)
    /\ Listening
    /\ handlers' = [handlers EXCEPT ![e] = Handler("isGroup", MainChat, userId, "text", "none")]
    /\ UNCHANGED <<jobVars, hashVars, reactVars, report, media, userStats, duplicates, textMessages, sent, now, query>>

\* an update with a document whose mime_type does not start with 'image/',
\* without photo and video, arrives: mediaType and mediaFileId stay
\* undefined
ReceiveDocument(e, userId) ==
    /\ handlers[e].pc = "idle"
    /\ IsNextUpdate(e)
    /\ Listening
    /\ handlers' = [handlers EXCEPT ![e] = Handler("isGroup", MainChat, userId, "undefined", "P")]
    /\ UNCHANGED <<jobVars, hashVars, reactVars, report, media, userStats, duplicates, textMessages, sent, now, query>>

\* the handler taking every document for an image document
IsGroupTrueAnyDocument(e) ==
    /\ handlers[e].pc = "isGroup"
    /\ Listening
    /\ handlers' = [handlers EXCEPT
          ![e].isValidGroup = "true",
          ![e].pc = IF handlers[e].mediaType = "command" THEN "command"
                    ELSE IF handlers[e].mediaType = "text" THEN "statsFind" ELSE "fetch"]
    /\ UNCHANGED <<jobVars, hashVars, reactVars, report, media, userStats, duplicates, textMessages, sent, now, query>>

\* await isGroup(chatId): the chat is a group; the handler runs on to its
\* next await, that of the command for a text that starts with '/',
\* bot.getFile for media with a mediaFileId and the findOne of
\* updateUserStatistics for another text; with a document that is no image
\* there is no mediaFileId and the handler returns
IsGroupTrue(e) ==
    /\ handlers[e].pc = "isGroup"
    /\ Listening
    /\ handlers' = [handlers EXCEPT ![e] =
          LET h == [@ EXCEPT !.isValidGroup = "true"]
          IN  IF h.mediaType = "command" THEN [h EXCEPT !.pc = "command"]
              ELSE IF h.mediaType = "text" THEN [h EXCEPT !.pc = "statsFind"]
              ELSE IF h.mediaType \in MediaKinds THEN [h EXCEPT !.pc = "fetch"]
              ELSE Return(h, "ignored")]
    /\ UNCHANGED <<jobVars, hashVars, reactVars, report, media, userStats, duplicates, textMessages, sent, now, query>>

\* a group check whose answer is not looked at
IsGroupFalseProceeds(e) ==
    /\ handlers[e].pc = "isGroup"
    /\ Listening
    /\ handlers' = [handlers EXCEPT ![e] =
          LET h == [@ EXCEPT !.isValidGroup = "false"]
          IN  IF h.mediaType = "command" THEN [h EXCEPT !.pc = "command"]
              ELSE IF h.mediaType = "text" THEN [h EXCEPT !.pc = "statsFind"]
              ELSE IF h.mediaType \in MediaKinds THEN [h EXCEPT !.pc = "fetch"]
              ELSE Return(h, "ignored")]
    /\ UNCHANGED <<jobVars, hashVars, reactVars, report, media, userStats, duplicates, textMessages, sent, now, query>>

\* await isGroup(chatId): the chat is no group or supergroup, or
\* bot.getChat fails, and isGroup returns false; a command is processed
\* all the same, with any other message the handler returns
IsGroupFalse(e) ==
    /\ handlers[e].pc = "isGroup"
    /\ Listening
    /\ handlers' = [handlers EXCEPT ![e] =
          LET h == [@ EXCEPT !.isValidGroup = "false"]
          IN  IF h.mediaType = "command" THEN [h EXCEPT !.pc = "command"]
              ELSE Return(h, "dropped")]
    /\ UNCHANGED <<jobVars, hashVars, reactVars, report, media, userStats, duplicates, textMessages, sent, now, query>>

\* a download after which the handler starts over
FetchStartingOver(e) ==
    /\ handlers[e].pc = "fetch"
    /\ Listening
    /\ handlers' = [handlers EXCEPT ![e].pc = "isGroup"]
    /\ UNCHANGED <<jobVars, hashVars, reactVars, report, media, userStats, duplicates, textMessages, sent, now, query>>

\* await bot.getFile(mediaFileId), await fetch(fileUrl) and await
\* response.arrayBuffer(): the download of the buffer, which reads and
\* writes nothing of the store
Fetch(e) ==
    /\ handlers[e].pc = "fetch"
    /\ Listening
    /\ handlers' = [handlers EXCEPT ![e].pc = "hash"]
    /\ UNCHANGED <<jobVars, hashVars, reactVars, report, media, userStats, duplicates, textMessages, sent, now, query>>

\* await hashMedia(mediaBuffer, mediaType)
Hash(e) ==
    /\ handlers[e].pc = "hash"
    /\ Listening
    /\ handlers' = [handlers EXCEPT
          ![e].pc = "find",
          ![e].mediaHash = hashMedia(handlers[e].buf, handlers[e].mediaType)]
    /\ UNCHANGED <<jobVars, hashVars, reactVars, report, media, userStats, duplicates, textMessages, sent, now, query>>

FindInChat(e) ==
    /\ handlers[e].pc = "find"
    /\ Listening
    /\ LET existingMedia ==
               findSimilarMedia(SelectSeq(media, LAMBDA m : m.chatId = handlers[e].chatId),
                                handlers[e].mediaHash,
                                handlers[e].mediaType, DefaultThreshold)
       IN handlers' = [handlers EXCEPT
              ![e].existingMedia = existingMedia,
              ![e].outcome = IF existingMedia /= None THEN "Matched" ELSE @,
              ![e].pc = IF existingMedia /= None THEN "send" ELSE "insertMedia"]
    /\ UNCHANGED <<jobVars, hashVars, reactVars, report, media, userStats, duplicates, textMessages, sent, now, query>>

\* await findSimilarMedia(mediaHash, mediaType): the read of the collection;
\* the handler runs on to bot.sendMessage or to media.insertOne
Find(e) ==
    /\ handlers[e].pc = "find"
    /\ Listening
    /\ LET existingMedia ==
               findSimilarMedia(media, handlers[e].mediaHash,
                                handlers[e].mediaType, DefaultThreshold)
       IN handlers' = [handlers EXCEPT
              ![e].existingMedia = existingMedia,
              ![e].outcome = IF existingMedia /= None THEN "Matched" ELSE @,
              ![e].pc = IF existingMedia /= None THEN "send" ELSE "insertMedia"]
    /\ UNCHANGED <<jobVars, hashVars, reactVars, report, media, userStats, duplicates, textMessages, sent, now, query>>

\* Math.abs(chatId)
Abs(n) == IF n < 0 THEN 0 - n ELSE n
\* n.toString() of a number that is not negative: its decimal digits
RECURSIVE Decimal(_)
Decimal(n) == IF n < 10 THEN <<n>> ELSE Append(Decimal(n \div 10), n % 10)
\* string.slice(3)
Slice3(string) == SubSeq(string, 4, Len(string))

\* originalMessageLink: https://t.me/c/
\*   ${Math.abs(chatId).toString().slice(3)}/${existingMedia.originalMessageId}
OriginalMessageLink(chatId, existingMedia) ==
    [c |-> Slice3(Decimal(Abs(chatId))),
     message |-> existingMedia.originalMessageId]

\* a notification that records the duplicate event as well, before
\* trackDuplicate records it
SendAndRecord(e) ==
    /\ handlers[e].pc = "send"
    /\ Listening
    /\ sent' = Append(sent, [chatId |-> handlers[e].chatId,
                             replyTo |-> e,
                             original |-> handlers[e].existingMedia.originalMessageId,
                             posterMention |-> handlers[e].existingMedia.userId,
                             link |-> OriginalMessageLink(handlers[e].chatId,
                                                          handlers[e].existingMedia)])
    /\ duplicates' = Append(duplicates, [userId |-> handlers[e].userId, timestamp |-> now])
    /\ now' = now + 1
    /\ handlers' = [handlers EXCEPT ![e].pc = "trackUpdate", ![e].date = clock]
    /\ UNCHANGED <<jobVars, hashVars, reactVars, report, media, userStats, textMessages, query>>

\* await bot.sendMessage(chatId, 'Duplicate Content Detected ...' with the
\* link, { reply_to_message_id: msg.message_id })
Send(e) ==
    /\ handlers[e].pc = "send"
    /\ Listening
    /\ sent' = Append(sent, [chatId |-> handlers[e].chatId,
                             replyTo |-> e,
                             original |-> handlers[e].existingMedia.originalMessageId,
                             posterMention |-> handlers[e].existingMedia.userId,
                             link |-> OriginalMessageLink(handlers[e].chatId,
                                                          handlers[e].existingMedia)])
    /\ handlers' = [handlers EXCEPT ![e].pc = "trackUpdate", ![e].date = clock]
    /\ UNCHANGED <<jobVars, hashVars, reactVars, report, media, userStats, duplicates, textMessages, now, query>>

\* trackDuplicate: await userStats.updateOne(..., { upsert: true })
TrackUpdate(e) ==
    /\ handlers[e].pc = "trackUpdate"
    /\ Listening
    /\ userStats' = UpsertDuplicate(userStats, handlers[e].userId, handlers[e].date)
    /\ handlers' = [handlers EXCEPT ![e].pc = "trackInsert"]
    /\ UNCHANGED <<jobVars, hashVars, reactVars, report, media, duplicates, textMessages, sent, now, query>>

\* trackDuplicate also storing the media of the duplicate
TrackInsertAndStore(e) ==
    /\ handlers[e].pc = "trackInsert"
    /\ Listening
    /\ duplicates' = Append(duplicates, [userId |-> handlers[e].userId, timestamp |-> now])
    /\ media' = Append(media, MediaDoc(handlers[e].mediaHash, e, handlers[e].userId,
                                       handlers[e].mediaType, now,
                                       handlers[e].chatId))
    /\ now' = now + 1
    /\ handlers' = [handlers EXCEPT
          ![e] = Return([@ EXCEPT !.outcome = "Duplicate"], "duplicate")]
    /\ UNCHANGED <<jobVars, hashVars, reactVars, report, userStats, textMessages, sent, query>>

\* trackDuplicate: await duplicates.insertOne(...); the handler returns
TrackInsert(e) ==
    /\ handlers[e].pc = "trackInsert"
    /\ Listening
    /\ duplicates' = Append(duplicates, [userId |-> handlers[e].userId, timestamp |-> now])
    /\ now' = now + 1
    /\ handlers' = [handlers EXCEPT
          ![e] = Return([@ EXCEPT !.outcome = "Duplicate"], "duplicate")]
    /\ UNCHANGED <<jobVars, hashVars, reactVars, report, media, userStats, textMessages, sent, query>>

\* a write that replaces the record of the same hash when there is one
InsertMediaReplacing(e) ==
    /\ handlers[e].pc = "insertMedia"
    /\ Listening
    /\ LET doc == MediaDoc(handlers[e].mediaHash, e, handlers[e].userId,
                           handlers[e].mediaType, now, handlers[e].chatId)
           same == {i \in 1..Len(media) : media[i].hash = doc.hash}
       IN  media' = IF same = {} THEN Append(media, doc)
                    ELSE [i \in 1..Len(media) |-> IF i \in same THEN doc ELSE media[i]]
    /\ now' = now + 1
    /\ handlers' = [handlers EXCEPT ![e].pc = "statsFind", ![e].outcome = "Accepted"]
    /\ UNCHANGED <<jobVars, hashVars, reactVars, report, userStats, duplicates, textMessages, sent, query>>

\* await media.insertOne({ hash, originalMessageId, userId, mediaType,
\* timestamp: new Date(), chatId })
InsertMedia(e) ==
    /\ handlers[e].pc = "insertMedia"
    /\ Listening
    /\ media' = Append(media, MediaDoc(handlers[e].mediaHash, e, handlers[e].userId,
                                       handlers[e].mediaType, now,
                                       handlers[e].chatId))
    /\ now' = now + 1
    /\ handlers' = [handlers EXCEPT ![e].pc = "statsFind", ![e].outcome = "Accepted"]
    /\ UNCHANGED <<jobVars, hashVars, reactVars, report, userStats, duplicates, textMessages, sent, query>>

\* updateUserStatistics: await userStats.findOne({ userId })
StatsFind(e) ==
    /\ handlers[e].pc = "statsFind"
    /\ Listening
    /\ handlers' = [handlers EXCEPT
          ![e].pc = "statsWrite",
          ![e].userStatsFound = FirstOf(userStats, handlers[e].userId, 1) /= 0,
          ![e].date = clock]
    /\ UNCHANGED <<jobVars, hashVars, reactVars, report, media, userStats, duplicates, textMessages, sent, now, query>>

\* updateUserStatistics: await userStats.updateOne or await
\* userStats.insertOne; a media handler returns, a text handler goes on to
\* textMessages.insertOne
StatsWrite(e) ==
    /\ handlers[e].pc = "statsWrite"
    /\ Listening
    /\ userStats' =
          IF handlers[e].userStatsFound
          THEN UpdateCounts(userStats, handlers[e].userId, handlers[e].mediaType,
                            handlers[e].date)
          ELSE Append(userStats, NewUserStats(handlers[e].userId, handlers[e].mediaType,
                                              handlers[e].date))
    /\ handlers' = [handlers EXCEPT
          ![e] = IF @.mediaType = "text"
                 THEN [@ EXCEPT !.pc = "textInsert"]
                 ELSE Return(@, "accepted")]
    /\ UNCHANGED <<jobVars, hashVars, reactVars, report, media, duplicates, textMessages, sent, now, query>>

\* await textMessages.insertOne(...); the handler returns
TextInsert(e) ==
    /\ handlers[e].pc = "textInsert"
    /\ Listening
    /\ textMessages' = Append(textMessages,
                              [userId |-> handlers[e].userId, messageId |-> e,
                               timestamp |-> now])
    /\ now' = now + 1
    /\ handlers' = [handlers EXCEPT
          ![e] = Return([@ EXCEPT !.outcome = "Accepted"], "accepted")]
    /\ UNCHANGED <<jobVars, hashVars, reactVars, report, media, userStats, duplicates, sent, query>>

\* the awaited call rejects and nothing catches the rejection
ThrowUncaught(e) ==
    /\ handlers[e].pc \in Throwing
    /\ Listening
    /\ handlers' = [handlers EXCEPT ![e] = Return(@, "crashed")]
    /\ UNCHANGED <<jobVars, hashVars, reactVars, report, media, userStats, duplicates, textMessages, sent, now, query>>

\* the awaited call rejects: catch (error) logs it and the handler returns
Throw(e) ==
    /\ handlers[e].pc \in Throwing
    /\ Listening
    /\ handlers' = [handlers EXCEPT ![e] = Return(@, "aborted")]
    /\ UNCHANGED <<jobVars, hashVars, reactVars, report, media, userStats, duplicates, textMessages, sent, now, query>>

Next ==
    \/ \E e \in Events, p \in MediaPosts : \E u \in Authors(e) :
          ReceiveMedia(e, MainChat, u, p[1], p[2])
    \/ \E e \in Events : \E u \in Authors(e) : ReceiveText(e, u)
    \/ \E e \in Events : IsGroupTrue(e)
    \/ \E e \in Events : IsGroupFalse(e)
    \/ \E e \in Events : Fetch(e)
    \/ \E e \in Events : Hash(e)
    \/ \E e \in Events : Find(e)
    \/ \E e \in Events : Send(e)
    \/ \E e \in Events : TrackUpdate(e)
    \/ \E e \in Events : TrackInsert(e)
    \/ \E e \in Events : InsertMedia(e)
    \/ \E e \in Events : StatsFind(e)
    \/ \E e \in Events : StatsWrite(e)
    \/ \E e \in Events : TextInsert(e)
    \/ \E e \in Events : Throw(e)

Spec == Init /\ [][Next]_vars

\* the handler on updates with a video or with a document that is no image
VideoPosts == {p \in MediaPosts : p[1] = "video"}

DocNext ==
    \/ \E e \in Events, p \in VideoPosts : \E u \in Authors(e) :
          ReceiveMedia(e, MainChat, u, p[1], p[2])
    \/ \E e \in Events : \E u \in Authors(e) : ReceiveDocument(e, u)
    \/ \E e \in Events : IsGroupTrue(e)
    \/ \E e \in Events : IsGroupFalse(e)
    \/ \E e \in Events : Fetch(e)
    \/ \E e \in Events : Hash(e)
    \/ \E e \in Events : Find(e)
    \/ \E e \in Events : Send(e)
    \/ \E e \in Events : TrackUpdate(e)
    \/ \E e \in Events : TrackInsert(e)
    \/ \E e \in Events : InsertMedia(e)
    \/ \E e \in Events : StatsFind(e)
    \/ \E e \in Events : StatsWrite(e)
    \/ \E e \in Events : Throw(e)

DocSpec == Init /\ [][DocNext]_vars

\* the handler on updates with one photo or with a text: every await of the
\* handler is reached and may reject
PhotoPosts == {p \in MediaPosts : p[1] = "photo" /\ p[2] = "X"}

FailNext ==
    \/ \E e \in Events, p \in PhotoPosts : \E u \in Authors(e) :
          ReceiveMedia(e, MainChat, u, p[1], p[2])
    \/ \E e \in Events : \E u \in Authors(e) : ReceiveText(e, u)
    \/ \E e \in Events : IsGroupTrue(e)
    \/ \E e \in Events : IsGroupFalse(e)
    \/ \E e \in Events : Fetch(e)
    \/ \E e \in Events : Hash(e)
    \/ \E e \in Events : Find(e)
    \/ \E e \in Events : Send(e)
    \/ \E e \in Events : TrackUpdate(e)
    \/ \E e \in Events : TrackInsert(e)
    \/ \E e \in Events : InsertMedia(e)
    \/ \E e \in Events : StatsFind(e)
    \/ \E e \in Events : StatsWrite(e)
    \/ \E e \in Events : TextInsert(e)
    \/ \E e \in Events : Throw(e)

FailSpec == Init /\ [][FailNext]_vars

\* a step of the handler of update e: an await of it returns or rejects
HandlerStep(e) ==
    \/ IsGroupTrue(e)
    \/ IsGroupFalse(e)
    \/ Fetch(e)
    \/ Hash(e)
    \/ Find(e)
    \/ Send(e)
    \/ TrackUpdate(e)
    \/ TrackInsert(e)
    \/ InsertMedia(e)
    \/ StatsFind(e)
    \/ StatsWrite(e)
    \/ TextInsert(e)
    \/ Throw(e)

\* every external call of every handler returns or fails: no handler waits
\* for ever at an await
FailFairSpec == FailSpec /\ \A e \in Events : WF_vars(HandlerStep(e))

\* the handler on updates with the same photo posted in two supergroups
ChatNext ==
    \/ \E e \in Events, p \in PhotoPosts, c \in Chats : \E u \in Authors(e) :
          ReceiveMedia(e, c, u, p[1], p[2])
    \/ \E e \in Events : IsGroupTrue(e)
    \/ \E e \in Events : IsGroupFalse(e)
    \/ \E e \in Events : Fetch(e)
    \/ \E e \in Events : Hash(e)
    \/ \E e \in Events : Find(e)
    \/ \E e \in Events : Send(e)
    \/ \E e \in Events : TrackUpdate(e)
    \/ \E e \in Events : TrackInsert(e)
    \/ \E e \in Events : InsertMedia(e)
    \/ \E e \in Events : StatsFind(e)
    \/ \E e \in Events : StatsWrite(e)

ChatSpec == Init /\ [][ChatNext]_vars

----------------------------------------------------------------------------
(* hashMedia with its temporary file *)

(***************************************************************************)
(* For a photo or a document hashMedia writes the buffer to the file       *)
(* downloads/temp_<Date.now()>.jpg, hands the name to imageHash, which     *)
(* reads the file later, and unlinks the file in the callback.  Hash(e)    *)
(* above is the call as a whole when no other call uses the same file      *)
(* name; here the call is followed step by step, with Date.now() read in   *)
(* milliseconds, so that two calls may read the same value.                *)
(***************************************************************************)

\* calls of hashMedia in one behaviour
MaxCalls == 2
\* the last reading of Date.now()
MaxClock == 1

Calls == 1..MaxCalls
\* the names temp_<Date.now()>.jpg
Paths == 0..MaxClock

NoFile == [media |-> "none", by |-> 0]
HashCall(pc, media_, mediaType) ==
    [pc |-> pc, media |-> media_, mediaType |-> mediaType, tempFilePath |-> 0,
     error |-> FALSE, hash |-> << >>, result |-> << >>, via |-> "none"]
NoCall == HashCall("idle", "none", "none")

\* resolve(value): the promise of the call is settled
Resolve(c, value, via) == [c EXCEPT !.pc = "resolved", !.result = value, !.via = via]

HashInit ==
    /\ media = << >>
    /\ userStats = << >>
    /\ duplicates = << >>
    /\ textMessages = << >>
    /\ handlers = << >>
    /\ sent = << >>
    /\ now = 0
    /\ query = NoQuery
    /\ downloads = [p \in Paths |-> NoFile]
    /\ hashCalls = [c \in Calls |-> NoCall]
    /\ report = << >>
    /\ messageReactions = << >>
    /\ reacted = NoReacted
    /\ updates = << >>
    /\ cron = NoCron
    /\ chatTypes = NoChatTypes
    /\ responses = << >>
    /\ clock = 0

\* everything but the clock and the state of hashMedia
storeVars == <<media, userStats, duplicates, textMessages, handlers, sent, query, report,
              reactVars, jobVars>>

\* calls are numbered in the order in which they are made
IsNextCall(c) == IF c = 1 THEN TRUE ELSE hashCalls[c - 1].pc /= "idle"

\* hashMedia(media, mediaType) for a video: resolve(cryptoHash())
HashExact(c, buf, mediaType) ==
    /\ hashCalls[c].pc = "idle" /\ IsNextCall(c)
    /\ ~IsPerceptualKind(mediaType)
    /\ hashCalls' = [hashCalls EXCEPT
          ![c] = Resolve(HashCall("idle", buf, mediaType), cryptoHash(buf), "exact")]
    /\ UNCHANGED <<downloads, now, storeVars>>

\* hashMedia for a photo or a document: fs.writeFileSync(tempFilePath, media)
\* and imageHash.imageHash(tempFilePath, 16, true, callback), which returns
\* before it has read the file
HashWrite(c, buf, mediaType) ==
    /\ hashCalls[c].pc = "idle" /\ IsNextCall(c)
    /\ IsPerceptualKind(mediaType)
    /\ downloads' = [downloads EXCEPT ![now] = [media |-> buf, by |-> c]]
    /\ hashCalls' = [hashCalls EXCEPT
          ![c] = [HashCall("imageHash", buf, mediaType) EXCEPT !.tempFilePath = now]]
    /\ UNCHANGED <<now, storeVars>>

\* fs.writeFileSync throws: catch (error) resolves with the digest
HashWriteThrows(c, buf, mediaType) ==
    /\ hashCalls[c].pc = "idle" /\ IsNextCall(c)
    /\ IsPerceptualKind(mediaType)
    /\ hashCalls' = [hashCalls EXCEPT
          ![c] = Resolve([HashCall("idle", buf, mediaType) EXCEPT !.tempFilePath = now],
                         cryptoHash(buf), "catch")]
    /\ UNCHANGED <<downloads, now, storeVars>>

\* the file is written and imageHash.imageHash throws before it returns:
\* catch (error) resolves with the digest and unlinks nothing
ImageHashThrows(c, buf, mediaType) ==
    /\ hashCalls[c].pc = "idle" /\ IsNextCall(c)
    /\ IsPerceptualKind(mediaType)
    /\ downloads' = [downloads EXCEPT ![now] = [media |-> buf, by |-> c]]
    /\ hashCalls' = [hashCalls EXCEPT
          ![c] = Resolve([HashCall("idle", buf, mediaType) EXCEPT !.tempFilePath = now],
                         cryptoHash(buf), "catch")]
    /\ UNCHANGED <<now, storeVars>>

\* image-hash reads the file of that name, as it is then, and computes the
\* block hash of what it read; a missing or undecodable file is an error
ImageHashRead(c) ==
    /\ hashCalls[c].pc = "imageHash"
    /\ LET file == downloads[hashCalls[c].tempFilePath]
           error == file = NoFile \/ imageHashError(file.media)
       IN hashCalls' = [hashCalls EXCEPT
              ![c].pc = "callback",
              ![c].error = error,
              ![c].hash = IF error THEN << >> ELSE imageHashValue(file.media)]
    /\ UNCHANGED <<downloads, now, storeVars>>

\* the callback resolving with its hash argument whatever the error
CallbackValueNoFallback(c) == c.hash

\* the value the callback resolves with
CallbackValue(c) == IF c.error THEN cryptoHash(c.media) ELSE c.hash

\* the callback (error, hash) => ...: fs.unlinkSync(tempFilePath) removes
\* the file (or finds none, which is caught), then resolve
ImageHashCallback(c) ==
    /\ hashCalls[c].pc = "callback"
    /\ downloads' = [downloads EXCEPT ![hashCalls[c].tempFilePath] = NoFile]
    /\ hashCalls' = [hashCalls EXCEPT
          ![c] = Resolve(@, CallbackValue(@), IF @.error THEN "error" ELSE "hash")]
    /\ UNCHANGED <<now, storeVars>>

\* the callback when fs.unlinkSync throws with the file in place:
\* catch (cleanupError) logs, then resolve
CleanupError(c) ==
    /\ hashCalls[c].pc = "callback"
    /\ downloads[hashCalls[c].tempFilePath] /= NoFile
    /\ hashCalls' = [hashCalls EXCEPT
          ![c] = Resolve(@, CallbackValue(@), IF @.error THEN "error" ELSE "hash")]
    /\ UNCHANGED <<downloads, now, storeVars>>

\* a millisecond passes
Tick ==
    /\ now < MaxClock
    /\ now' = now + 1
    /\ UNCHANGED <<hashVars, storeVars>>

HashNext ==
    \/ \E c \in Calls, p \in MediaPosts : HashExact(c, p[2], p[1])
    \/ \E c \in Calls, p \in MediaPosts : HashWrite(c, p[2], p[1])
    \/ \E c \in Calls, p \in MediaPosts : HashWriteThrows(c, p[2], p[1])
    \/ \E c \in Calls, p \in MediaPosts : ImageHashThrows(c, p[2], p[1])
    \/ \E c \in Calls : ImageHashRead(c)
    \/ \E c \in Calls : ImageHashCallback(c)
    \/ \E c \in Calls : CleanupError(c)
    \/ Tick

HashSpec == HashInit /\ [][HashNext]_vars

\* image-hash finishes the read it has started and Node runs the callback
\* it has queued
HashFairSpec ==
    /\ HashSpec
    /\ \A c \in Calls : WF_vars(ImageHashRead(c))
    /\ \A c \in Calls : WF_vars(ImageHashCallback(c) \/ CleanupError(c))

----------------------------------------------------------------------------
(* generateWeeklyStats *)

(***************************************************************************)
(* The report reads the media, textMessages and duplicates collections in  *)
(* three awaited finds with the filter { timestamp: { $gte: oneWeekAgo } } *)
(* and builds its message from what they returned.  The logs are written   *)
(* as the handler writes them: appended, stamped with the clock.  The      *)
(* reactions part of the message (getMessageReactions) is left out.        *)
(***************************************************************************)

\* the length of the window in readings of the clock (7 days in the program)
Week == 2
\* records written to the three collections in one behaviour
MaxLog == 2
\* the last reading of the clock
MaxNow == 4

\* Math.min(5, weeklyStatsArray.length)
TopContributors == 5
\* Math.min(3, duplicateOffenders.length)
TopOffenders == 3

\* what the five collections hold
StoreNow ==
    [media |-> media, userStats |-> userStats, duplicates |-> duplicates,
     textMessages |-> textMessages, messageReactions |-> messageReactions]

NoReport ==
    [pc |-> "idle", run |-> 0, now |-> 0, oneWeekAgo |-> 0,
     weeklyMedia |-> << >>, reactionCounts |-> << >>, failed |-> 0,
     weeklyTextMessages |-> << >>, weeklyDuplicates |-> << >>,
     read |-> [media |-> 0, textMessages |-> 0, duplicates |-> 0],
     message |-> None, store |-> None, steady |-> TRUE, previous |-> None]

ReportInit ==
    /\ media = << >>
    /\ userStats = << >>
    /\ duplicates = << >>
    /\ textMessages = << >>
    /\ handlers = << >>
    /\ sent = << >>
    /\ now = 0
    /\ query = NoQuery
    /\ downloads = << >>
    /\ hashCalls = << >>
    /\ report = NoReport
    /\ messageReactions = << >>
    /\ reacted = NoReacted
    /\ updates = << >>
    /\ cron = NoCron
    /\ chatTypes = NoChatTypes
    /\ responses = << >>
    /\ clock = 0

Logged == Len(media) + Len(textMessages) + Len(duplicates)

\* media.insertOne of the handler
LogMedia(userId, mediaType) ==
    /\ Logged < MaxLog /\ now < MaxNow
    /\ media' = Append(media, MediaDoc(<< >>, Logged + 1, userId, mediaType, now, MainChat))
    /\ now' = now + 1
    /\ UNCHANGED <<jobVars, hashVars, reactVars, report, userStats, duplicates, textMessages, handlers, sent, query>>

\* textMessages.insertOne of the handler
LogText(userId) ==
    /\ Logged < MaxLog /\ now < MaxNow
    /\ textMessages' = Append(textMessages,
                              [userId |-> userId, messageId |-> Logged + 1,
                               timestamp |-> now])
    /\ now' = now + 1
    /\ UNCHANGED <<jobVars, hashVars, reactVars, report, media, userStats, duplicates, handlers, sent, query>>

\* duplicates.insertOne of trackDuplicate
LogDuplicate(userId) ==
    /\ Logged < MaxLog /\ now < MaxNow
    /\ duplicates' = Append(duplicates, [userId |-> userId, timestamp |-> now])
    /\ now' = now + 1
    /\ UNCHANGED <<jobVars, hashVars, reactVars, report, media, userStats, textMessages, handlers, sent, query>>

\* time passes
Pass ==
    /\ now < MaxNow
    /\ now' = now + 1
    /\ UNCHANGED <<jobVars, hashVars, reactVars, report, media, userStats, duplicates, textMessages, handlers,
                   sent, query>>

\* chatId.toString(), messageId.toString(): the string of a number, which
\* no number is equal to
toString(n) == [string |-> n]

\* the first document of messageReactions with the chatId and the messageId
FindOneReaction(coll, chatId, messageId) ==
    LET found == {i \in 1..Len(coll) :
                     /\ coll[i].chatId = toString(chatId)
                     /\ coll[i].messageId = toString(messageId)}
    IN  IF found = {} THEN None
        ELSE coll[CHOOSE i \in found : \A j \in found : i <= j]

\* messageReactions.updateOne({ chatId, messageId },
\*     { $set: { totalReactions, ... } }, { upsert: true })
UpsertReaction(coll, chatId, messageId, totalReactions) ==
    LET found == {i \in 1..Len(coll) :
                     /\ coll[i].chatId = toString(chatId)
                     /\ coll[i].messageId = toString(messageId)}
    IN  IF found = {}
        THEN Append(coll, [chatId |-> toString(chatId),
                           messageId |-> toString(messageId),
                           totalReactions |-> totalReactions])
        ELSE [coll EXCEPT ![CHOOSE i \in found : \A j \in found : i <= j]
                              .totalReactions = totalReactions]

\* getMessageReactions when the findOne answers:
\* reactionData ? reactionData.totalReactions : 0
getMessageReactions(coll, chatId, messageId) ==
    LET reactionData == FindOneReaction(coll, chatId, messageId)
    IN  IF reactionData /= None THEN reactionData.totalReactions ELSE 0

\* a filter that lets every document through
InWindowAlways(doc, oneWeekAgo) == doc.timestamp = doc.timestamp

\* { timestamp: { $gte: oneWeekAgo } }
InWindow(doc, oneWeekAgo) == doc.timestamp >= oneWeekAgo

\* collection.find({ timestamp: { $gte: oneWeekAgo } }).toArray()
RECURSIVE FindSince(_, _, _)
FindSince(coll, oneWeekAgo, i) ==
    IF i > Len(coll) THEN << >>
    ELSE (IF InWindow(coll[i], oneWeekAgo) THEN <<coll[i]>> ELSE << >>)
         \o FindSince(coll, oneWeekAgo, i + 1)

\* the number of documents of an array that are of the user and, for media,
\* of the kind
CountOf(docs, userId) == Cardinality({i \in 1..Len(docs) : docs[i].userId = userId})
CountKind(docs, userId, mediaType) ==
    Cardinality({i \in 1..Len(docs) :
                    docs[i].userId = userId /\ docs[i].mediaType = mediaType})

\* totalMessages++ left out for an image document
UserWeeklyStatsDocumentsApart(weeklyMedia, weeklyTextMessages, userId) ==
    [userId |-> userId,
     photoCount |-> CountKind(weeklyMedia, userId, "photo"),
     videoCount |-> CountKind(weeklyMedia, userId, "video"),
     documentCount |-> CountKind(weeklyMedia, userId, "document"),
     textCount |-> CountOf(weeklyTextMessages, userId),
     totalMessages |-> CountKind(weeklyMedia, userId, "photo")
                         + CountKind(weeklyMedia, userId, "video")
                         + CountOf(weeklyTextMessages, userId)]

\* userWeeklyStats[userId] after the two loops
UserWeeklyStats(weeklyMedia, weeklyTextMessages, userId) ==
    [userId |-> userId,
     photoCount |-> CountKind(weeklyMedia, userId, "photo"),
     videoCount |-> CountKind(weeklyMedia, userId, "video"),
     documentCount |-> CountKind(weeklyMedia, userId, "document"),
     textCount |-> CountOf(weeklyTextMessages, userId),
     totalMessages |-> CountOf(weeklyMedia, userId) + CountOf(weeklyTextMessages, userId)]

\* userReactionStats[userId].totalReactions after the loop over weeklyMedia:
\* the sum of the reactionCount of the user's media, each added when it is
\* above 0
RECURSIVE UserReactions(_, _, _, _)
UserReactions(weeklyMedia, reactionCounts, userId, i) ==
    IF i > Len(weeklyMedia) THEN 0
    ELSE (IF weeklyMedia[i].userId = userId /\ reactionCounts[i] > 0
          THEN reactionCounts[i] ELSE 0)
         + UserReactions(weeklyMedia, reactionCounts, userId, i + 1)

\* the user ids of the documents of an array
UserIds(docs) == {docs[i].userId : i \in 1..Len(docs)}

\* Object.values of an object keyed by user id: the entries of the users
\* that have one, in ascending order of the id
RECURSIVE ObjectValues(_, _, _)
ObjectValues(entry, has, ids) ==
    IF ids = {} THEN << >>
    ELSE LET userId == CHOOSE u \in ids : \A v \in ids : u <= v
         IN  (IF has[userId] THEN <<entry[userId]>> ELSE << >>)
             \o ObjectValues(entry, has, ids \ {userId})

RECURSIVE InsertDescending(_, _, _, _)
\* a sort that leaves the array as it is
InsertUnsorted(sorted, x, field, i) == Append(sorted, x)

\* array.sort((a, b) => b[field] - a[field]): descending and stable
InsertDescending(sorted, x, field, i) ==
    IF i > Len(sorted) THEN Append(sorted, x)
    ELSE IF sorted[i][field] < x[field]
         THEN SubSeq(sorted, 1, i - 1) \o <<x>> \o SubSeq(sorted, i, Len(sorted))
         ELSE InsertDescending(sorted, x, field, i + 1)
RECURSIVE SortDescending(_, _, _)
SortDescending(array, field, i) ==
    IF i = 0 THEN << >>
    ELSE InsertDescending(SortDescending(array, field, i - 1), array[i], field, 1)

\* the first Math.min(k, array.length) entries
Top(array, k) == SubSeq(array, 1, IF Len(array) < k THEN Len(array) ELSE k)

RECURSIVE Sum(_, _, _)
Sum(array, field, i) ==
    IF i > Len(array) THEN 0 ELSE array[i][field] + Sum(array, field, i + 1)

\* what statsMessage says
StatsMessage(weeklyMedia, reactionCounts, weeklyTextMessages, weeklyDuplicates) ==
    LET posters == UserIds(weeklyMedia) \cup UserIds(weeklyTextMessages)
        userWeeklyStats ==
            [u \in posters |-> UserWeeklyStats(weeklyMedia, weeklyTextMessages, u)]
        weeklyStatsArray ==
            ObjectValues(userWeeklyStats, [u \in posters |-> TRUE], posters)
        sortedStats == SortDescending(weeklyStatsArray, "totalMessages", Len(weeklyStatsArray))
        userReactionStats ==
            [u \in posters |->
                [userId |-> u,
                 totalReactions |-> UserReactions(weeklyMedia, reactionCounts, u, 1)]]
        reactionStatsArray ==
            SortDescending(
                ObjectValues(userReactionStats,
                             [u \in posters |-> userReactionStats[u].totalReactions > 0],
                             posters),
                "totalReactions",
                Cardinality({u \in posters : userReactionStats[u].totalReactions > 0}))
        offending == UserIds(weeklyDuplicates)
        duplicateStats ==
            [u \in offending |-> [userId |-> u, count |-> CountOf(weeklyDuplicates, u)]]
        offenders ==
            ObjectValues(duplicateStats, [u \in offending |-> duplicateStats[u].count > 0],
                         offending)
        duplicateOffenders == SortDescending(offenders, "count", Len(offenders))
    IN  [topContributors |->
             [i \in 1..Len(Top(sortedStats, TopContributors)) |->
                 [userId |-> sortedStats[i].userId,
                  totalMessages |-> sortedStats[i].totalMessages]],
         topReactor |->
             IF Len(reactionStatsArray) > 0 THEN reactionStatsArray[1] ELSE None,
         totalPhotos |-> Sum(weeklyStatsArray, "photoCount", 1),
         totalVideos |-> Sum(weeklyStatsArray, "videoCount", 1),
         totalTexts |-> Sum(weeklyStatsArray, "textCount", 1),
         duplicateOffenders |-> Top(duplicateOffenders, TopOffenders)]

\* whether the store is, at a step of the run, as it was when the run began
Steady == report.steady /\ report.store = StoreNow

\* generateWeeklyStats(): now = new Date(), oneWeekAgo, and the find on
\* media is sent
ReportStart ==
    /\ report.pc = "idle"
    /\ report' = [report EXCEPT !.pc = "findMedia", !.run = @ + 1, !.now = now,
                                !.oneWeekAgo = now - Week, !.store = StoreNow]
    /\ UNCHANGED <<jobVars, hashVars, reactVars, media, userStats, duplicates, textMessages, handlers, sent,
                   now, query>>

\* await db.collection('media').find(...).toArray()
ReportFindMedia ==
    /\ report.pc = "findMedia"
    /\ LET weeklyMedia == FindSince(media, report.oneWeekAgo, 1) IN
       report' = [report EXCEPT
          !.pc = IF weeklyMedia = << >> THEN "findTexts" ELSE "getMessageReactions",
          !.weeklyMedia = weeklyMedia,
          !.read.media = Len(media),
          !.steady = Steady]
    /\ UNCHANGED <<jobVars, hashVars, reactVars, media, userStats, duplicates, textMessages, handlers, sent,
                   now, query>>

\* one turn of the loop over weeklyMedia:
\* await getMessageReactions(media.chatId, media.originalMessageId)
ReportGetReactions ==
    /\ report.pc = "getMessageReactions"
    /\ LET i == Len(report.reactionCounts) + 1
           reactionCount ==
               getMessageReactions(messageReactions, report.weeklyMedia[i].chatId,
                                   report.weeklyMedia[i].originalMessageId)
       IN report' = [report EXCEPT
             !.pc = IF i = Len(report.weeklyMedia) THEN "findTexts" ELSE @,
             !.reactionCounts = Append(@, reactionCount),
             !.steady = Steady]
    /\ UNCHANGED <<jobVars, hashVars, reactVars, media, userStats, duplicates, textMessages, handlers, sent,
                   now, query>>

\* one turn of the loop in which the findOne of getMessageReactions
\* rejects: catch (error) { console.error(...); return 0; }
ReportGetReactionsFails ==
    /\ report.pc = "getMessageReactions"
    /\ LET i == Len(report.reactionCounts) + 1
       IN report' = [report EXCEPT
             !.pc = IF i = Len(report.weeklyMedia) THEN "findTexts" ELSE @,
             !.reactionCounts = Append(@, 0),
             !.failed = @ + 1,
             !.steady = Steady]
    /\ UNCHANGED <<jobVars, hashVars, reactVars, media, userStats, duplicates, textMessages, handlers, sent,
                   now, query>>

\* await db.collection('textMessages').find(...).toArray() and the loop
\* over weeklyTextMessages
ReportFindTexts ==
    /\ report.pc = "findTexts"
    /\ report' = [report EXCEPT
          !.pc = "findDuplicates",
          !.weeklyTextMessages = FindSince(textMessages, report.oneWeekAgo, 1),
          !.read.textMessages = Len(textMessages),
          !.steady = Steady]
    /\ UNCHANGED <<jobVars, hashVars, reactVars, media, userStats, duplicates, textMessages, handlers, sent,
                   now, query>>

\* await db.collection('duplicates').find(...).toArray(), the rest of the
\* message, and return statsMessage
ReportFindDuplicates ==
    /\ report.pc = "findDuplicates"
    /\ LET weeklyDuplicates == FindSince(duplicates, report.oneWeekAgo, 1) IN
       report' = [report EXCEPT
          !.pc = "done",
          !.weeklyDuplicates = weeklyDuplicates,
          !.read.duplicates = Len(duplicates),
          !.message = StatsMessage(report.weeklyMedia, report.reactionCounts,
                                   report.weeklyTextMessages, weeklyDuplicates),
          !.steady = Steady]
    /\ UNCHANGED <<jobVars, hashVars, reactVars, media, userStats, duplicates, textMessages, handlers, sent,
                   now, query>>

ReportNext ==
    \/ \E u \in Users, k \in MediaKinds : LogMedia(u, k)
    \/ \E u \in Users : LogText(u)
    \/ \E u \in Users : LogDuplicate(u)
    \/ Pass
    \/ ReportStart
    \/ ReportFindMedia
    \/ ReportGetReactions
    \/ ReportFindTexts
    \/ ReportFindDuplicates

ReportSpec == ReportInit /\ [][ReportNext]_vars

----------------------------------------------------------------------------
(* The report with its caller, the reactions it reads, and a second run *)

\* the times at which the media of the store were written, the clock being
\* read at MaxLog + 1 by the report; Week before it the window starts
StampSets == {T \in SUBSET (0..MaxLog) : Cardinality(T) <= MaxLog}

\* the elements of a set of numbers in ascending order
RECURSIVE Ascending(_)
Ascending(S) ==
    IF S = {} THEN << >>
    ELSE LET least == CHOOSE x \in S : \A y \in S : x <= y
         IN  <<least>> \o Ascending(S \ {least})

\* the media of the store: photos of the main chat, written at the times of
\* the set by the users, numbered in natural order
DigestMedia(T, user) ==
    LET stamps == Ascending(T)
    IN  [i \in 1..Len(stamps) |->
            MediaDoc(<< >>, i, user[stamps[i]], "photo", stamps[i], MainChat)]

\* messageReactions as the reaction listeners left it: an entry for the
\* message of the same id in the other chat when there is one, and an
\* entry for each media message that got reactions
RECURSIVE DigestReactions(_, _, _)
DigestReactions(coll, total, i) ==
    IF i \notin DOMAIN total THEN coll
    ELSE DigestReactions(
             IF total[i] > 0 THEN UpsertReaction(coll, MainChat, i, total[i]) ELSE coll,
             total, i + 1)

DigestInit ==
    /\ userStats = << >>
    /\ duplicates = << >>
    /\ textMessages = << >>
    /\ handlers = << >>
    /\ sent = << >>
    /\ now = MaxLog + 1
    /\ query = NoQuery
    /\ downloads = << >>
    /\ hashCalls = << >>
    /\ report = NoReport
    /\ reacted = NoReacted
    /\ updates = << >>
    /\ cron = NoCron
    /\ chatTypes = NoChatTypes
    /\ responses = << >>
    /\ clock = 0
    /\ \E T \in StampSets : \E user \in [T -> Users] :
          /\ media = DigestMedia(T, user)
          /\ \E total \in [1..Cardinality(T) -> 0..MaxReacted] :
             \E stray \in {<< >>, UpsertReaction(<< >>, CHOOSE c \in Chats : c /= MainChat,
                                                 1, MaxReacted)} :
                messageReactions = DigestReactions(stray, total, 1)

\* a find of generateWeeklyStats rejects: generateWeeklyStats rejects, and
\* the catch of its caller logs the error
ReportFindFails ==
    /\ report.pc \in {"findMedia", "findTexts", "findDuplicates"}
    /\ report' = [report EXCEPT !.pc = "aborted"]
    /\ UNCHANGED <<jobVars, hashVars, reactVars, media, userStats, duplicates, textMessages, handlers, sent,
                   now, query>>

\* the caller, the /stats command or the weekly job:
\* await bot.sendMessage(chatId, statsMessage, { parse_mode: 'HTML' })
ReportSend ==
    /\ report.pc = "done"
    /\ sent' = Append(sent, [chatId |-> MainChat, text |-> report.message,
                             failed |-> report.failed])
    /\ report' = [report EXCEPT !.pc = "sent"]
    /\ UNCHANGED <<jobVars, hashVars, reactVars, media, userStats, duplicates, textMessages, handlers,
                   now, query>>

\* the next /stats command or the next run of the weekly job; of the run
\* before it, the store it began with, its window and its message are kept
ReportAgain ==
    /\ report.pc \in {"sent", "aborted"}
    /\ report.previous = None
    /\ report' = [NoReport EXCEPT
          !.run = report.run,
          !.previous = [store |-> report.store, steady |-> Steady,
                        oneWeekAgo |-> report.oneWeekAgo,
                        message |-> report.message]]
    /\ UNCHANGED <<jobVars, hashVars, reactVars, media, userStats, duplicates, textMessages, handlers, sent,
                   now, query>>

DigestNext ==
    \/ ReportStart
    \/ ReportFindMedia
    \/ ReportGetReactions
    \/ ReportGetReactionsFails
    \/ ReportFindTexts
    \/ ReportFindDuplicates
    \/ ReportFindFails
    \/ ReportSend
    \/ ReportAgain

DigestSpec == DigestInit /\ [][DigestNext]_vars

----------------------------------------------------------------------------
(* The listeners of message_reaction and message_reaction_count *)

\* reaction updates received in one behaviour
MaxUpdates == 2

\* the reactions a message has at Telegram: those of all its users
RECURSIVE TotalAt(_, _)
TotalAt(byUser, users) ==
    IF users = {} THEN 0
    ELSE LET u == CHOOSE x \in users : TRUE
         IN  byUser[u] + TotalAt(byUser, users \ {u})

\* update.new_reaction: the ReactionType objects of the reactions that the
\* user of the update has on the message now
NewReaction(n) == [i \in 1..n |-> [type |-> "emoji"]]
\* update.reactions: the ReactionCount objects of a message with `total`
\* reactions, of one emoji or of two
ReactionCounts(total) ==
    IF total = 0 THEN {<< >>}
    ELSE IF total = 1 THEN {<<[type |-> "emoji", total_count |-> 1]>>}
    ELSE {<<[type |-> "emoji", total_count |-> total]>>,
          <<[type |-> "emoji", total_count |-> 1],
            [type |-> "emoji", total_count |-> total - 1]>>}

\* a run of a reaction listener: the update, the total of the message at
\* Telegram when the update was made, where the listener is, and the place
\* of its write among the writes
Update(kind, key, reactions, messageTotal) ==
    [kind |-> kind, chatId |-> key[1], messageId |-> key[2], reactions |-> reactions,
     messageTotal |-> messageTotal, pc |-> "updateOne", written |-> 0]

ReactInit ==
    /\ media = << >>
    /\ userStats = << >>
    /\ duplicates = << >>
    /\ textMessages = << >>
    /\ handlers = << >>
    /\ sent = << >>
    /\ now = 0
    /\ query = NoQuery
    /\ downloads = << >>
    /\ hashCalls = << >>
    /\ report = << >>
    /\ messageReactions = << >>
    /\ reacted = NoReacted
    /\ updates = << >>
    /\ cron = NoCron
    /\ chatTypes = NoChatTypes
    /\ responses = << >>
    /\ clock = 0

\* a user sets or removes reactions on a message, and Telegram sends the
\* update message_reaction with the reactions of that user
React(key, userId, n) ==
    /\ Len(updates) < MaxUpdates
    /\ reacted[key][userId] /= n
    /\ reacted' = [reacted EXCEPT ![key][userId] = n]
    /\ updates' = Append(updates,
                         Update("message_reaction", key, NewReaction(n),
                                TotalAt(reacted'[key], Users)))
    /\ UNCHANGED <<jobVars, hashVars, messageReactions, report, media, userStats, duplicates,
                   textMessages, handlers, sent, now, query>>

\* Telegram sends the update message_reaction_count with the counts of the
\* reactions the message has
ReactionCount(key, reactions) ==
    /\ Len(updates) < MaxUpdates
    /\ updates' = Append(updates,
                         Update("message_reaction_count", key, reactions,
                                TotalAt(reacted[key], Users)))
    /\ UNCHANGED <<jobVars, hashVars, messageReactions, reacted, report, media, userStats,
                   duplicates, textMessages, handlers, sent, now, query>>

\* the reduce of updateMessageReactions:
\* reaction.total_count ? sum + reaction.total_count : sum + 1
RECURSIVE ReduceReactions(_, _)
ReduceReactions(reactions, i) ==
    IF i > Len(reactions) THEN 0
    ELSE (IF "total_count" \in DOMAIN reactions[i] /\ reactions[i].total_count /= 0
          THEN reactions[i].total_count ELSE 1)
         + ReduceReactions(reactions, i + 1)

\* the reduce of the listener of message_reaction_count:
\* sum + reaction.total_count
RECURSIVE ReduceCounts(_, _)
ReduceCounts(reactions, i) ==
    IF i > Len(reactions) THEN 0
    ELSE reactions[i].total_count + ReduceCounts(reactions, i + 1)

\* the writes of the listeners so far
Written == Cardinality({i \in 1..Len(updates) : updates[i].pc = "done"})

\* bot.on('message_reaction'):
\* await updateMessageReactions(chatId, messageId, newReaction)
UpdateMessageReactions(i) ==
    /\ i \in 1..Len(updates)
    /\ updates[i].kind = "message_reaction"
    /\ updates[i].pc = "updateOne"
    /\ messageReactions' =
          UpsertReaction(messageReactions, updates[i].chatId, updates[i].messageId,
                         ReduceReactions(updates[i].reactions, 1))
    /\ updates' = [updates EXCEPT ![i].pc = "done", ![i].written = Written + 1]
    /\ UNCHANGED <<jobVars, hashVars, reacted, report, media, userStats, duplicates,
                   textMessages, handlers, sent, now, query>>

\* bot.on('message_reaction_count'): the reduce and
\* await messageReactions.updateOne(...)
UpdateReactionCount(i) ==
    /\ i \in 1..Len(updates)
    /\ updates[i].kind = "message_reaction_count"
    /\ updates[i].pc = "updateOne"
    /\ messageReactions' =
          UpsertReaction(messageReactions, updates[i].chatId, updates[i].messageId,
                         ReduceCounts(updates[i].reactions, 1))
    /\ updates' = [updates EXCEPT ![i].pc = "done", ![i].written = Written + 1]
    /\ UNCHANGED <<jobVars, hashVars, reacted, report, media, userStats, duplicates,
                   textMessages, handlers, sent, now, query>>

\* the updateOne of a listener rejects: the catch logs the error
UpdateFails(i) ==
    /\ i \in 1..Len(updates)
    /\ updates[i].pc = "updateOne"
    /\ updates' = [updates EXCEPT ![i].pc = "failed"]
    /\ UNCHANGED <<jobVars, hashVars, messageReactions, reacted, report, media, userStats,
                   duplicates, textMessages, handlers, sent, now, query>>

ReactNext ==
    \/ \E key \in ReactKeys, u \in Users, n \in 0..MaxReacted : React(key, u, n)
    \/ \E key \in ReactKeys :
          \E reactions \in ReactionCounts(TotalAt(reacted[key], Users)) :
             ReactionCount(key, reactions)
    \/ \E i \in 1..MaxUpdates : UpdateMessageReactions(i)
    \/ \E i \in 1..MaxUpdates : UpdateReactionCount(i)
    \/ \E i \in 1..MaxUpdates : UpdateFails(i)

ReactSpec == ReactInit /\ [][ReactNext]_vars

----------------------------------------------------------------------------
(* The handler, a reaction listener and a report on one store *)

StoreInit ==
    /\ media = << >>
    /\ userStats = << >>
    /\ duplicates = << >>
    /\ textMessages = << >>
    /\ handlers = [e \in Events |-> NoHandler]
    /\ sent = << >>
    /\ now = 0
    /\ query = NoQuery
    /\ downloads = << >>
    /\ hashCalls = << >>
    /\ report = NoReport
    /\ messageReactions = << >>
    /\ reacted = NoReacted
    /\ updates = << >>
    /\ cron = NoCron
    /\ chatTypes = NoChatTypes
    /\ responses = << >>
    /\ clock = 0

\* the same photo posted by user 1 over and over, one reaction of user 1 to
\* the first message, and one run of /stats, in any interleaving
StoreNext ==
    \/ \E e \in Events, p \in PhotoPosts : ReceiveMedia(e, MainChat, 1, p[1], p[2])
    \/ \E e \in Events : IsGroupTrue(e)
    \/ \E e \in Events : Fetch(e)
    \/ \E e \in Events : Hash(e)
    \/ \E e \in Events : Find(e)
    \/ \E e \in Events : Send(e)
    \/ \E e \in Events : TrackUpdate(e)
    \/ \E e \in Events : TrackInsert(e)
    \/ \E e \in Events : InsertMedia(e)
    \/ \E e \in Events : StatsFind(e)
    \/ \E e \in Events : StatsWrite(e)
    \/ React(<<MainChat, 1>>, 1, 1)
    \/ UpdateMessageReactions(1)
    \/ ReportStart
    \/ ReportFindMedia
    \/ ReportGetReactions
    \/ ReportFindTexts
    \/ ReportFindDuplicates
    \/ ReportSend

StoreSpec == StoreInit /\ [][StoreNext]_vars

----------------------------------------------------------------------------
(* The commands *)

\* the first word of a text that starts with '/', without the '/':
\* the commands that answer with a message made without the store or from
\* reads of it, and a word that is no command of the bot
ReadingCommands == {"help", "petushok", "debug_reactions", "webhook_info", "group_info"}
Commands == {"stats"} \cup ReadingCommands \cup {"start"}

\* an update with a text that starts with '/' arrives
ReceiveCommand(e, userId, command) ==
    /\ handlers[e].pc = "idle"
    /\ IsNextUpdate(e)
    /\ Listening
    /\ handlers' = [handlers EXCEPT ![e] =
          [Handler("isGroup", MainChat, userId, "command", "none") EXCEPT
              !.command = command]]
    /\ UNCHANGED <<jobVars, hashVars, reactVars, report, media, userStats, duplicates, textMessages, sent, now, query>>

\* command === 'stats': generateWeeklyStats() is called, reads the clock
\* and sends its find on media
CommandStats(e) ==
    /\ handlers[e].pc = "command"
    /\ handlers[e].command = "stats"
    /\ Listening
    /\ report.pc = "idle"
    /\ report' = [report EXCEPT !.pc = "findMedia", !.run = @ + 1, !.now = now,
                                !.oneWeekAgo = now - Week, !.store = StoreNow]
    /\ handlers' = [handlers EXCEPT ![e].pc = "generateWeeklyStats"]
    /\ UNCHANGED <<jobVars, hashVars, reactVars, media, userStats, duplicates, textMessages, sent, now, query>>

\* await generateWeeklyStats() has returned:
\* await bot.sendMessage(chatId, statsMessage, ...); return
CommandStatsSend(e) ==
    /\ handlers[e].pc = "generateWeeklyStats"
    /\ Listening
    /\ report.pc = "done"
    /\ sent' = Append(sent, [chatId |-> handlers[e].chatId, text |-> report.message,
                             failed |-> report.failed])
    /\ report' = [report EXCEPT !.pc = "sent"]
    /\ handlers' = [handlers EXCEPT ![e] = Return(@, "replied")]
    /\ UNCHANGED <<jobVars, hashVars, reactVars, media, userStats, duplicates, textMessages, now, query>>

\* await generateWeeklyStats() has rejected: the catch of the handler logs
\* the error
CommandStatsFails(e) ==
    /\ handlers[e].pc = "generateWeeklyStats"
    /\ Listening
    /\ report.pc = "aborted"
    /\ handlers' = [handlers EXCEPT ![e] = Return(@, "aborted")]
    /\ UNCHANGED <<jobVars, hashVars, reactVars, report, media, userStats, duplicates, textMessages, sent, now, query>>

\* /help, /petushok, /debug_reactions, /webhook_info, /group_info: the
\* message is made, for some from reads of media and messageReactions, and
\* await bot.sendMessage(chatId, ...); return
CommandReply(e) ==
    /\ handlers[e].pc = "command"
    /\ handlers[e].command \in ReadingCommands
    /\ Listening
    /\ sent' = Append(sent, [chatId |-> handlers[e].chatId, text |-> handlers[e].command,
                             failed |-> 0])
    /\ handlers' = [handlers EXCEPT ![e] = Return(@, "replied")]
    /\ UNCHANGED <<jobVars, hashVars, reactVars, report, media, userStats, duplicates, textMessages, now, query>>

\* a word that is no command of the bot counted like any other text
CommandOtherAsText(e) ==
    /\ handlers[e].pc = "command"
    /\ handlers[e].command \notin {"stats"} \cup ReadingCommands
    /\ Listening
    /\ handlers' = [handlers EXCEPT ![e].pc = "statsFind", ![e].mediaType = "text"]
    /\ UNCHANGED <<jobVars, hashVars, reactVars, report, media, userStats, duplicates, textMessages, sent, now, query>>

\* a word that is no command of the bot: no branch of the commands returns,
\* the message has no photo, video or document, and the branch of the
\* texts asks for !msg.text.startsWith('/'): the handler returns
CommandOther(e) ==
    /\ handlers[e].pc = "command"
    /\ handlers[e].command \notin {"stats"} \cup ReadingCommands
    /\ Listening
    /\ handlers' = [handlers EXCEPT ![e] = Return(@, "ignored")]
    /\ UNCHANGED <<jobVars, hashVars, reactVars, report, media, userStats, duplicates, textMessages, sent, now, query>>

\* the handler on commands, texts and one photo
CommandNext ==
    \/ \E e \in Events, c \in Commands : \E u \in Authors(e) : ReceiveCommand(e, u, c)
    \/ \E e \in Events : \E u \in Authors(e) : ReceiveText(e, u)
    \/ \E e \in Events, p \in PhotoPosts : \E u \in Authors(e) :
          ReceiveMedia(e, MainChat, u, p[1], p[2])
    \/ \E e \in Events : IsGroupTrue(e)
    \/ \E e \in Events : IsGroupFalse(e)
    \/ \E e \in Events : CommandStats(e)
    \/ \E e \in Events : CommandStatsSend(e)
    \/ \E e \in Events : CommandStatsFails(e)
    \/ \E e \in Events : CommandReply(e)
    \/ \E e \in Events : CommandOther(e)
    \/ ReportFindMedia
    \/ ReportGetReactions
    \/ ReportFindTexts
    \/ ReportFindDuplicates
    \/ ReportFindFails
    \/ \E e \in Events : Fetch(e)
    \/ \E e \in Events : Hash(e)
    \/ \E e \in Events : Find(e)
    \/ \E e \in Events : Send(e)
    \/ \E e \in Events : TrackUpdate(e)
    \/ \E e \in Events : TrackInsert(e)
    \/ \E e \in Events : InsertMedia(e)
    \/ \E e \in Events : StatsFind(e)
    \/ \E e \in Events : StatsWrite(e)
    \/ \E e \in Events : TextInsert(e)

CommandSpec == StoreInit /\ [][CommandNext]_vars

----------------------------------------------------------------------------
(* generateWeeklyStats on a store with more users than a ranking shows *)

\* messages, or duplicates, of one user in the store
MaxPosts == 2
\* the messages of the user and the duplicates of the other user in the
\* store that holds nothing else
ScenarioMessages == 10
ScenarioDuplicates == 3

\* one user more than the ranking of contributors shows
RankUsers == 1..TopContributors + 1
\* one user more than the ranking of offenders shows
RankOffenders == 1..TopOffenders + 1

\* the documents of a collection in which user u has count[u] documents, all
\* stamped now, numbered in natural order
RECURSIVE PostsFrom(_, _, _)
PostsFrom(count, doc, u) ==
    IF u \notin DOMAIN count THEN << >>
    ELSE [i \in 1..count[u] |-> doc[u]] \o PostsFrom(count, doc, u + 1)
Numbered(docs, field) == [i \in 1..Len(docs) |-> [docs[i] EXCEPT ![field] = i]]

RankMedia(count) ==
    Numbered(PostsFrom(count, [u \in DOMAIN count |->
                                  MediaDoc(<< >>, 0, u, "photo", 0, MainChat)], 1),
             "originalMessageId")
RankTexts(count) ==
    Numbered(PostsFrom(count, [u \in DOMAIN count |->
                                  [userId |-> u, messageId |-> 0, timestamp |-> 0]], 1),
             "messageId")
RankDuplicates(count) ==
    PostsFrom(count, [u \in DOMAIN count |-> [userId |-> u, timestamp |-> 0]], 1)

RankInit ==
    /\ userStats = << >>
    /\ handlers = << >>
    /\ sent = << >>
    /\ now = 0
    /\ query = NoQuery
    /\ downloads = << >>
    /\ hashCalls = << >>
    /\ report = NoReport
    /\ messageReactions = << >>
    /\ reacted = NoReacted
    /\ updates = << >>
    /\ cron = NoCron
    /\ chatTypes = NoChatTypes
    /\ responses = << >>
    /\ clock = 0
    /\ \/ \E count \in [RankUsers -> 0..MaxPosts] :
             /\ \/ media = RankMedia(count) /\ textMessages = << >>
                \/ media = << >> /\ textMessages = RankTexts(count)
             /\ duplicates = << >>
       \/ \E count \in [RankOffenders -> 0..MaxPosts] :
             /\ media = << >>
             /\ textMessages = << >>
             /\ duplicates = RankDuplicates(count)
       \/ /\ media = RankMedia(<<1>>)
          /\ textMessages = RankTexts(<<ScenarioMessages - 1>>)
          /\ duplicates = RankDuplicates(<<0, ScenarioDuplicates>>)

RankNext ==
    \/ ReportStart
    \/ ReportFindMedia
    \/ ReportGetReactions
    \/ ReportFindTexts
    \/ ReportFindDuplicates

RankSpec == RankInit /\ [][RankNext]_vars

----------------------------------------------------------------------------
(* Properties of the index *)

Range(seq) == {seq[i] : i \in 1..Len(seq)}
Perceptual(coll) == {m \in Range(coll) : IsPerceptualKind(m.mediaType)}
Dist(m) == calculateHashDistance(query.hash, m.hash)
Within(m, th) == Leq(Dist(m), Num(th))
PerceptualQuery == query.mediaType \in {"photo", "document"}
ExactQuery == query.mediaType = "video"

\* the number of bits in which two hex digits, and two hex strings of the
\* same length, differ
BitDiff(a, b) ==
    Cardinality({k \in 0..3 : (a \div (2 ^ k)) % 2 /= (b \div (2 ^ k)) % 2})
RECURSIVE BitSum(_, _, _)
BitSum(hash1, hash2, i) ==
    IF i > Len(hash1) THEN 0
    ELSE BitDiff(hash1[i], hash2[i]) + BitSum(hash1, hash2, i + 1)
Comparable(hash1, hash2) ==
    hash1 /= << >> /\ hash2 /= << >> /\ Len(hash1) = Len(hash2)

\* C3: for a photo or image-document query, findSimilarMedia returns a stored
\* perceptual-kind record at the minimal distance over all stored
\* perceptual-kind records when that minimum is at most the threshold, and
\* no match exactly when every such record is farther than the threshold.
C3_NearestWithinThreshold ==
    PerceptualQuery =>
        IF \E m \in Perceptual(media) : Within(m, query.threshold)
        THEN /\ query.result \in Perceptual(media)
             /\ Within(query.result, query.threshold)
             /\ \A m \in Perceptual(media) : Leq(Dist(query.result), Dist(m))
        ELSE query.result = None

C3_Witness ==
    /\ PerceptualQuery
    /\ query.threshold = DefaultThreshold
    /\ Len(media) = 2
    /\ media[1].mediaType = "photo" /\ media[2].mediaType = "document"
    /\ Within(media[1], DefaultThreshold)
    /\ Less(Dist(media[2]), Dist(media[1]))
    /\ query.result = media[2]

C5_DistanceCountsBits ==
    \A m \in Perceptual(media) :
        Comparable(query.hash, m.hash) =>
            /\ Dist(m) = Num(BitSum(query.hash, m.hash, 1))
            /\ Within(m, DefaultThreshold) <=> BitSum(query.hash, m.hash, 1) <= DefaultThreshold

\* C7: for a video query, findSimilarMedia returns a match if and only if
\* some stored record has a fingerprint equal to the query's, and the record
\* returned has that fingerprint, whatever the threshold.
C7_ExactMatchOnly ==
    ExactQuery =>
        /\ query.result /= None <=> \E m \in Range(media) : m.hash = query.hash
        /\ query.result /= None =>
               query.result \in Range(media) /\ query.result.hash = query.hash

C7_Witness ==
    /\ ExactQuery
    /\ query.threshold = DefaultThreshold
    /\ query.result = None
    /\ \E m \in Range(media) :
          m.mediaType = "video" /\ Dist(m) = Num(1)

\* C8: fingerprints of different lengths, or an empty one, have the distance
\* Infinity, and findSimilarMedia never returns a record whose fingerprint
\* length differs from the query's (nor, by the scan, any record for an
\* empty query or with an empty fingerprint), for any threshold.
C8_LengthMismatchNeverMatches ==
    /\ \A m \in Range(media) : ~Comparable(query.hash, m.hash) => Dist(m) = Infinity
    /\ query.result /= None => Len(query.result.hash) = Len(query.hash)
    /\ (PerceptualQuery /\ query.result /= None) =>
           Comparable(query.hash, query.result.hash)

C8_Witness ==
    /\ PerceptualQuery
    /\ query.threshold = DefaultThreshold
    /\ query.hash = Short(0)
    /\ Len(media) = 2
    /\ media[1].hash = Flip(0, 0) /\ media[1].mediaType = "photo"
    /\ media[2].hash = << >> /\ media[2].mediaType = "photo"
    /\ query.result = None

----------------------------------------------------------------------------
(* Properties of the handler *)

\* no handler is mid-event
Quiescent == \A e \in Events : handlers[e].pc \in Terminal \cup {"idle"}

IsMedia(e) == handlers[e].mediaType \in MediaKinds
RecordsOf(e) == {i \in 1..Len(media) : media[i].originalMessageId = e}
EventsOf(userId, outcomes) ==
    {e \in Events : handlers[e].userId = userId /\ handlers[e].outcome \in outcomes}
DuplicateEventsOf(userId) == {i \in 1..Len(duplicates) : duplicates[i].userId = userId}
StatsOf(userId) == {i \in 1..Len(userStats) : userStats[i].userId = userId}
\* a counter read from a document, 0 when the document lacks the field
Val(v) == IF v = Absent THEN 0 ELSE v

\* C1: two media events with the same new image from two posters, handled to
\* the end with their steps interleaved in any order, leave exactly one
\* FingerprintRecord for the image, and exactly one of the two posters is
\* recorded as Duplicate.
C1_OneOriginalUnderRace ==
    \A e1, e2 \in Events :
        ( /\ e1 < e2
          /\ handlers[e1].pc \in {"accepted", "duplicate"}
          /\ handlers[e2].pc \in {"accepted", "duplicate"}
          /\ handlers[e1].mediaType = "photo" /\ handlers[e2].mediaType = "photo"
          /\ handlers[e1].buf = "X" /\ handlers[e2].buf = "X"
          /\ handlers[e1].userId /= handlers[e2].userId
          /\ \A i \in 1..Len(media) :
                media[i].originalMessageId \in {e1, e2}
                \/ ~Leq(calculateHashDistance(hashMedia("X", "photo"), media[i].hash),
                        Num(DefaultThreshold)) )
        => /\ Cardinality(RecordsOf(e1) \cup RecordsOf(e2)) = 1
           /\ Cardinality({e \in {e1, e2} : handlers[e].outcome = "Duplicate"}) = 1

\* C2: the number of FingerprintRecords equals the number of media events
\* that were Accepted (each has exactly one record, inserted by the accept
\* branch); an event whose lookup matched has no record in the media
\* collection, and the DuplicateEvents are those of the events recorded as
\* Duplicate.
C2_OneRecordPerAccepted ==
    /\ Len(media) = Cardinality({e \in Events : IsMedia(e) /\ handlers[e].outcome = "Accepted"})
    /\ \A e \in Events :
          Cardinality(RecordsOf(e)) =
              IF IsMedia(e) /\ handlers[e].outcome = "Accepted" THEN 1 ELSE 0
    /\ Len(duplicates) = Cardinality({e \in Events : handlers[e].outcome = "Duplicate"})

C2_Witness ==
    /\ handlers[1].pc = "accepted" /\ handlers[1].buf = "X"
    /\ handlers[1].mediaType = "photo"
    /\ handlers[2].pc = "duplicate" /\ handlers[2].buf = "Xr"
    /\ handlers[2].userId /= handlers[1].userId
    /\ Len(media) = 1 /\ media[1].originalMessageId = 1
    /\ Len(duplicates) = 1 /\ duplicates[1].userId = handlers[2].userId

\* C6: when perceptual hashing of an image event fails and the fingerprint
\* is the digest, the lookup matches only a stored record with an identical
\* fingerprint.
C6_FallbackExactOnly ==
    \A e \in Events :
        ( /\ handlers[e].mediaType \in {"photo", "document"}
          /\ imageHashError(handlers[e].buf)
          /\ handlers[e].existingMedia /= None )
        => handlers[e].existingMedia.hash = handlers[e].mediaHash

\* C9: every media event whose lookup returned a matching record has, once
\* its handler has returned, one DuplicateEvent and one increment of the
\* poster's duplicatesPosted, whether or not the notification was delivered.
C9_MatchAlwaysRecorded ==
    \A u \in Users :
        (\A e \in Events : handlers[e].userId = u => handlers[e].pc \in Terminal) =>
            LET matched == Cardinality(EventsOf(u, {"Matched", "Duplicate"})) IN
            /\ Cardinality(DuplicateEventsOf(u)) = matched
            /\ IF StatsOf(u) = {} THEN matched = 0
               ELSE \A i \in StatsOf(u) : Val(userStats[i].duplicatesPosted) = matched

\* C10: whenever no handler is mid-event, for every user totalMessages equals
\* the number of the user's accepted text and media events and
\* duplicatesPosted equals the number of the user's Duplicate events.
C10_StatsMatchEvents ==
    Quiescent =>
        \A u \in Users :
            LET accepted == Cardinality(EventsOf(u, {"Accepted"}))
                dups == Cardinality(EventsOf(u, {"Duplicate"}))
            IN IF StatsOf(u) = {} THEN accepted = 0 /\ dups = 0
               ELSE \A i \in StatsOf(u) :
                       /\ Val(userStats[i].totalMessages) = accepted
                       /\ Val(userStats[i].duplicatesPosted) = dups

\* C11: after any interleaving of the events of one user the userStats
\* collection holds at most one document with that user id.
C11_OneStatsDocumentPerUser ==
    \A u \in Users : Cardinality(StatsOf(u)) <= 1

MediaOf(userId) == {i \in 1..Len(media) : media[i].userId = userId}
TextsOf(userId) == {i \in 1..Len(textMessages) : textMessages[i].userId = userId}

\* C12: whenever no handler is mid-event, also after events that failed
\* part-way, for every user photoCount + videoCount + documentCount equals
\* the number of the user's FingerprintRecords, textCount the number of the
\* user's TextMessageRecords and duplicatesPosted the number of the user's
\* DuplicateEvents.
C12_StatsAreViewOfLogs ==
    Quiescent =>
        \A u \in Users :
            IF StatsOf(u) = {}
            THEN MediaOf(u) = {} /\ TextsOf(u) = {} /\ DuplicateEventsOf(u) = {}
            ELSE \A i \in StatsOf(u) :
                    /\ Val(userStats[i].photoCount) + Val(userStats[i].videoCount)
                          + Val(userStats[i].documentCount) = Cardinality(MediaOf(u))
                    /\ Val(userStats[i].textCount) = Cardinality(TextsOf(u))
                    /\ Val(userStats[i].duplicatesPosted) = Cardinality(DuplicateEventsOf(u))

\* the sum of one counter over the documents of a user
RECURSIVE Total(_, _, _, _)
Total(coll, userId, field, i) ==
    IF i > Len(coll) THEN 0
    ELSE (IF coll[i].userId = userId THEN Val(coll[i][field]) ELSE 0)
         + Total(coll, userId, field, i + 1)

IsText(e) == handlers[e].mediaType = "text"
TextRecordsOf(e) == {i \in 1..Len(textMessages) : textMessages[i].messageId = e}

\* what one step of the handler of a text update does
TextStep(e) ==
    LET h == handlers[e]
        u == handlers[e].userId
    IN  /\ media' = media /\ duplicates' = duplicates /\ sent' = sent
        /\ handlers'[e].mediaHash = << >> /\ handlers'[e].existingMedia = None
        /\ IF h.pc = "statsWrite" /\ handlers'[e].pc = "textInsert"
           THEN /\ Total(userStats', u, "totalMessages", 1)
                      = Total(userStats, u, "totalMessages", 1) + 1
                /\ Total(userStats', u, "textCount", 1)
                      = Total(userStats, u, "textCount", 1) + 1
                /\ \A f \in {"photoCount", "videoCount", "documentCount", "duplicatesPosted"} :
                      Total(userStats', u, f, 1) = Total(userStats, u, f, 1)
                /\ \A v \in Users \ {u} : \A f \in {"totalMessages", "textCount"} :
                      Total(userStats', v, f, 1) = Total(userStats, v, f, 1)
                /\ textMessages' = textMessages
           ELSE IF h.pc = "textInsert" /\ handlers'[e].pc = "accepted"
           THEN /\ userStats' = userStats
                /\ Len(textMessages') = Len(textMessages) + 1
                /\ SubSeq(textMessages', 1, Len(textMessages)) = textMessages
                /\ textMessages'[Len(textMessages')].userId = u
                /\ textMessages'[Len(textMessages')].messageId = e
           ELSE userStats' = userStats /\ textMessages' = textMessages

\* C13: a text update that is no command, in a group, handled to the end,
\* has raised the author's totalMessages and textCount by exactly one (in
\* the one step that writes userStats) and has appended exactly one
\* TextMessageRecord (in the one step that writes textMessages); no step of
\* its handler changes the media or the duplicates collection, sends a
\* notification or computes a fingerprint, and no text update ever has more
\* than one TextMessageRecord.
C13_TextEventEffect ==
    /\ [](\A e \in Events :
            IsText(e) =>
                /\ Cardinality(TextRecordsOf(e)) = IF handlers[e].pc = "accepted" THEN 1 ELSE 0
                /\ RecordsOf(e) = {}
                /\ handlers[e].mediaHash = << >>)
    /\ [][\A e \in Events :
            (IsText(e) /\ handlers'[e] /= handlers[e]) => TextStep(e)]_vars

C13_Witness ==
    /\ IsText(1) /\ IsText(2)
    /\ handlers[1].pc = "accepted" /\ handlers[2].pc = "accepted"
    /\ handlers[2].userId = handlers[1].userId
    /\ Len(userStats) = 1
    /\ userStats[1].textCount = 2 /\ userStats[1].totalMessages = 2
    /\ Len(textMessages) = 2
    /\ media = << >> /\ duplicates = << >> /\ sent = << >>

\* the next step of the handler of update e when its awaited call resolves
Proceed(e) ==
    CASE handlers[e].pc = "isGroup" -> IsGroupTrue(e)
      [] handlers[e].pc = "fetch" -> Fetch(e)
      [] handlers[e].pc = "hash" -> Hash(e)
      [] handlers[e].pc = "find" -> Find(e)
      [] handlers[e].pc = "send" -> Send(e)
      [] handlers[e].pc = "trackUpdate" -> TrackUpdate(e)
      [] handlers[e].pc = "trackInsert" -> TrackInsert(e)
      [] handlers[e].pc = "insertMedia" -> InsertMedia(e)
      [] handlers[e].pc = "statsFind" -> StatsFind(e)
      [] handlers[e].pc = "statsWrite" -> StatsWrite(e)
      [] handlers[e].pc = "textInsert" -> TextInsert(e)
      [] OTHER -> FALSE
\* update e is delivered to the listener
Arrive(e) ==
    \/ \E p \in PhotoPosts, u \in Authors(e) : ReceiveMedia(e, MainChat, u, p[1], p[2])
    \/ \E u \in Authors(e) : ReceiveText(e, u)
\* the handler of update e failed at a step and returned through the catch
\* of the handler or of isGroup
Failed(e) == handlers[e].pc \in {"aborted", "dropped"}

\* C14: after an update whose handler failed at any step the process is
\* still listening: the failure never leaves the handler, every other
\* handler that is mid-event can take its next step, and the next update is
\* still delivered and handled.
C14_FailureStaysInHandler ==
    /\ Listening
    /\ \A e \in Events :
          (\E f \in Events : f /= e /\ Failed(f)) =>
              /\ handlers[e].pc \notin Terminal \cup {"idle"} => ENABLED Proceed(e)
              /\ (handlers[e].pc = "idle" /\ IsNextUpdate(e)) => ENABLED Arrive(e)

C14_Witness ==
    /\ handlers[1].pc = "aborted" /\ handlers[1].outcome = "Accepted"
    /\ handlers[1].mediaType = "photo" /\ handlers[1].buf = "X"
    /\ Len(media) = 1 /\ media[1].originalMessageId = 1
    /\ userStats = << >>
    /\ handlers[2].pc = "send" /\ handlers[2].buf = "X"
    /\ handlers[2].existingMedia = media[1]

----------------------------------------------------------------------------
(* Properties of hashMedia *)

Resolved(c) == hashCalls[c].pc = "resolved"
\* neither fs.writeFileSync nor imageHash.imageHash threw in the call
NoThrow(c) == hashCalls[c].via /= "catch"

\* C15: two hashMedia calls with identical bytes and the same kind, in
\* neither of which a call throws, return identical fingerprints, and the
\* fingerprint a call returns is the block hash or the digest of the call's
\* own buffer, whatever other calls are in flight.
C15_FingerprintOfOwnBuffer ==
    /\ \A c1, c2 \in Calls :
          ( /\ Resolved(c1) /\ Resolved(c2) /\ NoThrow(c1) /\ NoThrow(c2)
            /\ hashCalls[c1].media = hashCalls[c2].media
            /\ hashCalls[c1].mediaType = hashCalls[c2].mediaType )
          => hashCalls[c1].result = hashCalls[c2].result
    /\ \A c \in Calls :
          Resolved(c) =>
              hashCalls[c].result \in
                  {imageHashValue(hashCalls[c].media), cryptoHash(hashCalls[c].media)}

\* C16: hashMedia never rejects and every call that has started resolves;
\* the fingerprint is a full-length string, and it is the SHA-256 digest of
\* the call's own bytes when the kind is no image kind, when image-hash
\* reported an error and when the synchronous part threw.
C16_AlwaysResolvesWithFallback ==
    /\ [](\A c \in Calls :
            /\ hashCalls[c].pc \in {"idle", "imageHash", "callback", "resolved"}
            /\ Resolved(c) =>
                  /\ Len(hashCalls[c].result) = HashLen
                  /\ ~IsPerceptualKind(hashCalls[c].mediaType) =>
                        hashCalls[c].result = cryptoHash(hashCalls[c].media)
                  /\ (hashCalls[c].error \/ hashCalls[c].via = "catch") =>
                        hashCalls[c].result = cryptoHash(hashCalls[c].media))
    /\ \A c \in Calls : (hashCalls[c].pc /= "idle") ~> Resolved(c)

C16_Witness ==
    /\ Resolved(1) /\ hashCalls[1].mediaType = "photo" /\ hashCalls[1].media = "Zc"
    /\ hashCalls[1].error /\ hashCalls[1].result = cryptoHash("Zc")
    /\ Resolved(2) /\ hashCalls[2].mediaType = "document"
    /\ hashCalls[2].via = "catch" /\ hashCalls[2].result = cryptoHash(hashCalls[2].media)

\* C17: when a hashMedia call has resolved, no temporary file written by
\* that call is left in the downloads directory.
C17_NoTempFileLeft ==
    \A c \in Calls :
        Resolved(c) => \A p \in Paths : downloads[p].by /= c

----------------------------------------------------------------------------
(* Properties of the handler on videos and on documents that are no image *)

\* the update carries a document that is no image, and nothing else
IsOtherDocument(e) == handlers[e].mediaType = "undefined"
IsVideo(e) == handlers[e].mediaType = "video"
StoredWith(hash) == {i \in 1..Len(media) : media[i].hash = hash}

C19_OtherDocumentIgnored ==
    /\ [][\A e \in Events :
            (IsOtherDocument(e) /\ handlers'[e] /= handlers[e]) =>
                /\ media' = media /\ userStats' = userStats
                /\ duplicates' = duplicates /\ textMessages' = textMessages
                /\ sent' = sent
                /\ handlers[e].pc = "isGroup"
                /\ handlers'[e].pc \in {"ignored", "dropped"}]_vars
    /\ [](\A e \in Events :
            IsOtherDocument(e) =>
                /\ handlers[e].pc \in {"isGroup", "ignored", "dropped"}
                /\ handlers[e].mediaHash = << >>
                /\ RecordsOf(e) = {}
                /\ \A i \in 1..Len(sent) : sent[i].replyTo /= e)

C19_Witness ==
    /\ IsVideo(1) /\ handlers[1].pc = "accepted"
    /\ IsOtherDocument(2) /\ handlers[2].pc = "ignored"
    /\ handlers[2].userId = handlers[1].userId
    /\ Len(media) = 1 /\ media[1].originalMessageId = 1
    /\ Len(userStats) = 1 /\ userStats[1].totalMessages = 1
    /\ duplicates = << >> /\ textMessages = << >> /\ sent = << >>

----------------------------------------------------------------------------
(* Properties of the weekly report *)

\* the documents of a collection that were stored when the report read it
\* and are stamped inside the window, which starts Week before the report's
\* reading of the clock
Counted(coll, read) ==
    {i \in 1..read : coll[i].timestamp >= report.now - Week}
ByUser(coll, idx, userId) == {i \in idx : coll[i].userId = userId}
\* the number the message gives for a user in a ranking, 0 when the user is
\* not in it
Shown(ranking, userId, field) ==
    IF \E i \in 1..Len(ranking) : ranking[i].userId = userId
    THEN (CHOOSE e \in Range(ranking) : e.userId = userId)[field]
    ELSE 0

\* C20: the weekly report counts a FingerprintRecord, a TextMessageRecord or
\* a DuplicateEvent exactly when its timestamp is not older than the window
\* start, 7 days before the report's reading of the clock (and the record
\* was stored when the report read its collection): the contributor totals,
\* the media-breakdown totals and the offender counts are the numbers of
\* those records, so a record older than the window start contributes to
\* none of them.
C20_ReportCountsWindowOnly ==
    report.pc = "done" =>
        LET m == Counted(media, report.read.media)
            t == Counted(textMessages, report.read.textMessages)
            d == Counted(duplicates, report.read.duplicates)
        IN  /\ \A u \in Users :
                  /\ Shown(report.message.topContributors, u, "totalMessages")
                        = Cardinality(ByUser(media, m, u))
                            + Cardinality(ByUser(textMessages, t, u))
                  /\ Shown(report.message.duplicateOffenders, u, "count")
                        = Cardinality(ByUser(duplicates, d, u))
            /\ report.message.totalPhotos
                  = Cardinality({i \in m : media[i].mediaType = "photo"})
            /\ report.message.totalVideos
                  = Cardinality({i \in m : media[i].mediaType = "video"})
            /\ report.message.totalTexts = Cardinality(t)

C20_Witness ==
    /\ report.pc = "done" /\ report.now = Week + 2
    /\ Len(media) = 1 /\ media[1].timestamp = 1 /\ media[1].userId = 1
    /\ media[1].mediaType = "photo"
    /\ Len(textMessages) = 1 /\ textMessages[1].timestamp = 2
    /\ textMessages[1].userId = 1
    /\ report.message.topContributors = <<[userId |-> 1, totalMessages |-> 1]>>
    /\ report.message.totalPhotos = 0 /\ report.message.totalTexts = 1

----------------------------------------------------------------------------
(* Properties of the rankings of the report *)

\* the users that have a document of the collection counted by the report
UsersIn(coll, idx) == {coll[i].userId : i \in idx}
NonIncreasing(ranking, field) ==
    \A i, j \in 1..Len(ranking) : i < j => ranking[i][field] >= ranking[j][field]
Listed(ranking) == {ranking[i].userId : i \in 1..Len(ranking)}
Least(a, b) == IF a < b THEN a ELSE b

\* C21: the report lists at most 5 top contributors, each user once with the
\* number of the user's in-window messages, in non-increasing order, and no
\* user left out has strictly more messages than a listed one; it lists at
\* most 3 duplicate offenders, each with the user's in-window duplicate
\* count, which is at least 1, in non-increasing order, and no user left out
\* has more duplicates than a listed one.  The rankings are as long as these
\* limits allow.  When one user posted all the messages and another one all
\* the duplicates, the first is the first contributor and the second the
\* first offender.
C21_RankingsAreTopOfWindow ==
    report.pc = "done" =>
        LET m == Counted(media, report.read.media)
            t == Counted(textMessages, report.read.textMessages)
            d == Counted(duplicates, report.read.duplicates)
            total(u) == Cardinality(ByUser(media, m, u))
                          + Cardinality(ByUser(textMessages, t, u))
            dups(u) == Cardinality(ByUser(duplicates, d, u))
            posters == UsersIn(media, m) \cup UsersIn(textMessages, t)
            offending == UsersIn(duplicates, d)
            tc == report.message.topContributors
            off == report.message.duplicateOffenders
        IN  /\ Len(tc) = Least(5, Cardinality(posters))
            /\ Cardinality(Listed(tc)) = Len(tc)
            /\ \A i \in 1..Len(tc) : tc[i].totalMessages = total(tc[i].userId)
            /\ NonIncreasing(tc, "totalMessages")
            /\ \A u \in posters \ Listed(tc) :
                  \A i \in 1..Len(tc) : total(u) <= tc[i].totalMessages
            /\ Len(off) = Least(3, Cardinality(offending))
            /\ Cardinality(Listed(off)) = Len(off)
            /\ \A i \in 1..Len(off) : off[i].count = dups(off[i].userId) /\ off[i].count >= 1
            /\ NonIncreasing(off, "count")
            /\ \A u \in offending \ Listed(off) :
                  \A i \in 1..Len(off) : dups(u) <= off[i].count
            /\ \A a \in posters, b \in offending :
                  posters = {a} /\ offending = {b}
                     => tc[1].userId = a /\ off[1].userId = b

\* six users posted, not all equally often, and the ranking shows five
C21_Witness ==
    /\ report.pc = "done"
    /\ Cardinality(UserIds(media) \cup UserIds(textMessages)) = TopContributors + 1
    /\ Len(report.message.topContributors) = TopContributors
    /\ report.message.topContributors[1].totalMessages
          > report.message.topContributors[TopContributors].totalMessages
    /\ report.message.topContributors[1].userId = TopContributors + 1

\* the store of the example: 10 messages of user 1, 3 duplicates of user 2
C21_Example ==
    /\ report.pc = "done"
    /\ Len(media) + Len(textMessages) = ScenarioMessages
    /\ Len(duplicates) = ScenarioDuplicates
    /\ report.message.topContributors[1] = [userId |-> 1, totalMessages |-> ScenarioMessages]
    /\ report.message.duplicateOffenders[1] = [userId |-> 2, count |-> ScenarioDuplicates]

----------------------------------------------------------------------------
(* Properties of a report run and of its delivery *)

\* a step of the report or of its caller
ReportStep == report' /= report \/ sent' /= sent

\* the run that has returned and the run before it were over the same
\* store contents, which no write changed meanwhile, and the same window
SameStoreAndWindow ==
    /\ report.pc = "done"
    /\ report.previous /= None
    /\ report.previous.message /= None
    /\ report.previous.steady /\ Steady
    /\ report.previous.store = report.store
    /\ report.previous.oneWeekAgo = report.oneWeekAgo

\* C22: a step of a report run or of its caller changes no collection of the
\* store, and two report runs over the same store contents and the same
\* window return the same message.
C22_ReportReadsOnlyAndRepeats ==
    [][/\ ReportStep => StoreNow' = StoreNow
       /\ SameStoreAndWindow' => report'.message = report'.previous.message]_vars

\* C22, the part that holds: a step of a report run or of its caller changes
\* no collection of the store.
C22_ReportReadsOnly == [][ReportStep => StoreNow' = StoreNow]_vars

\* C23: a report message that was sent was generated without a failed store
\* query.
C23_NoReportAfterFailedQuery ==
    \A i \in 1..Len(sent) : sent[i].failed = 0

\* C23, for the three finds: after a find of generateWeeklyStats has failed
\* the run sends nothing.
C23_FailedFindSendsNothing ==
    [][report.pc = "aborted" => sent' = sent]_vars

\* the media records inside the window of the report
InWindowMedia == {i \in 1..Len(media) : media[i].timestamp >= report.oneWeekAgo}
\* the reaction total the store holds for a media record, 0 when it holds
\* none
StoredTotal(i) ==
    LET entries == {j \in 1..Len(messageReactions) :
                       /\ messageReactions[j].chatId = toString(media[i].chatId)
                       /\ messageReactions[j].messageId = toString(media[i].originalMessageId)}
    IN  IF entries = {} THEN 0
        ELSE messageReactions[CHOOSE j \in entries : TRUE].totalReactions
RECURSIVE SumOfTotals(_)
SumOfTotals(S) ==
    IF S = {} THEN 0
    ELSE LET i == CHOOSE x \in S : TRUE IN StoredTotal(i) + SumOfTotals(S \ {i})
\* the sum of the stored reaction totals of the user's in-window media
Engagement(userId) == SumOfTotals({i \in InWindowMedia : media[i].userId = userId})

\* C25: a report over a store that no write changes meanwhile names a top
\* engagement user only when some in-window media record has a stored
\* reaction total above 0, and then with the sum of the stored reaction
\* totals of that user's in-window media records, which no user's sum
\* exceeds; records outside the window add nothing.
C25_TopReactorHasMostReactions ==
    (report.pc = "done" /\ Steady /\ report.message.topReactor /= None) =>
        /\ \E i \in InWindowMedia : StoredTotal(i) > 0
        /\ report.message.topReactor.totalReactions
              = Engagement(report.message.topReactor.userId)
        /\ \A u \in Users : Engagement(u) <= Engagement(report.message.topReactor.userId)

\* C25 for the runs in which every read of messageReactions answered
C25_TopReactorWhenReadsAnswer ==
    report.failed = 0 => C25_TopReactorHasMostReactions

\* a run in which every read answered names the user whose older record,
\* outside the window, has reactions too
C25_Witness ==
    /\ report.pc = "done" /\ report.failed = 0
    /\ report.message.topReactor /= None
    /\ \E i \in 1..Len(media) \ InWindowMedia :
          /\ StoredTotal(i) > 0
          /\ media[i].userId /= report.message.topReactor.userId

----------------------------------------------------------------------------
(* Properties of the reaction entries *)

\* the entries of messageReactions for a message
EntriesOf(key) ==
    {j \in 1..Len(messageReactions) :
        /\ messageReactions[j].chatId = toString(key[1])
        /\ messageReactions[j].messageId = toString(key[2])}
\* the updates for a message whose write was made
WrittenFor(key) ==
    {i \in 1..Len(updates) :
        /\ updates[i].pc = "done"
        /\ <<updates[i].chatId, updates[i].messageId>> = key}
\* the one of them whose write was the last
LastWritten(key) ==
    CHOOSE i \in WrittenFor(key) : \A j \in WrittenFor(key) : updates[j].written <= updates[i].written

\* C24: after any sequence of reaction updates the store holds at most one
\* reaction entry per (chat id, message id); it holds none for a message
\* for which no update was written, and for the others its totalReactions is
\* the number of reactions the message had at Telegram when the update that
\* was written last for the message was made.
C24_EntryHoldsLastTotal ==
    \A key \in ReactKeys :
        /\ Cardinality(EntriesOf(key)) <= 1
        /\ WrittenFor(key) = {} => EntriesOf(key) = {}
        /\ WrittenFor(key) /= {} =>
              \A j \in EntriesOf(key) :
                 messageReactions[j].totalReactions = updates[LastWritten(key)].messageTotal

\* C24, the part that holds: at most one entry per message, and in it what
\* the listener computed from the update written last, the number of
\* new_reaction of one user or the sum of the total_count
C24_EntryHoldsLastComputed ==
    \A key \in ReactKeys :
        /\ Cardinality(EntriesOf(key)) <= 1
        /\ WrittenFor(key) /= {} =>
              /\ EntriesOf(key) /= {}
              /\ \A j \in EntriesOf(key) :
                    LET u == updates[LastWritten(key)]
                    IN  messageReactions[j].totalReactions =
                           IF u.kind = "message_reaction" THEN Len(u.reactions)
                           ELSE ReduceCounts(u.reactions, 1)

----------------------------------------------------------------------------
(* Properties of the duplicate notification *)

\* the supergroups that a link https://t.me/c/<c>/<message> leads to: those
\* whose chat id is -100<c>
LinkedChats(link) == {chat \in Chats : Decimal(Abs(chat)) = <<1, 0, 0>> \o link.c}
\* the records that a notification may have matched
MatchedBy(notification) ==
    {i \in 1..Len(media) : media[i].originalMessageId = notification.original}

\* C26: the back-link of a duplicate notification leads to the conversation
\* and the message of the matched record, also when the duplicate was posted
\* in another conversation than the original.
C26_LinkLeadsToOriginal ==
    \A n \in 1..Len(sent) : \A i \in MatchedBy(sent[n]) :
        /\ LinkedChats(sent[n].link) = {media[i].chatId}
        /\ sent[n].link.message = media[i].originalMessageId

\* C26, the part that holds: the link carries the message id of the matched
\* record and, when the duplicate was posted in the conversation of the
\* original, leads to that conversation.
C26_LinkLeadsToOriginalInSameChat ==
    \A n \in 1..Len(sent) : \A i \in MatchedBy(sent[n]) :
        /\ sent[n].link.message = media[i].originalMessageId
        /\ sent[n].chatId = media[i].chatId
              => LinkedChats(sent[n].link) = {media[i].chatId}

----------------------------------------------------------------------------
(* Properties of the two logs *)

\* the collection after a step holds the documents it held, unchanged and
\* in their places
Kept(before, after) ==
    /\ Len(before) <= Len(after)
    /\ \A i \in 1..Len(before) : after[i] = before[i]

\* C27: media and duplicates are append-only: no step of a handler, of a
\* reaction listener or of a report run changes a field of a record that was
\* inserted, and none removes a record.
C27_LogsAreAppendOnly ==
    [][Kept(media, media') /\ Kept(duplicates, duplicates')]_vars

\* a record and a duplicate event were inserted, a report read both, and
\* after its read of the reactions a reaction was written
C27_Witness ==
    /\ Len(media) >= 1 /\ Len(duplicates) >= 1
    /\ \A e \in Events : handlers[e].pc \in Terminal
    /\ Len(messageReactions) = 1
    /\ report.pc = "sent"
    /\ report.read.media >= 1 /\ report.read.duplicates >= 1
    /\ report.reactionCounts = <<0>>

----------------------------------------------------------------------------
(* Properties of the outcome of a media event *)

\* the step inserts a record into media for event e
InsertsRecord(e) == Cardinality(RecordsOf(e)') > Cardinality(RecordsOf(e))

\* C28: each media event takes at most one of the two outcomes, and takes it
\* at most once: a step inserts at most one document into media and
\* duplicates together; a record is inserted only for an event that has
\* none and for which no duplicate event was recorded; a duplicate event is
\* recorded only by the handler of one event for which there is no record
\* and no duplicate event yet; and the outcome an event has taken stays.
C28_AtMostOneOutcome ==
    [][/\ Len(media') + Len(duplicates') <= Len(media) + Len(duplicates) + 1
       /\ Len(media') > Len(media) =>
             \E e \in Events :
                /\ InsertsRecord(e)
                /\ RecordsOf(e) = {}
                /\ handlers[e].outcome = "Unseen"
                /\ handlers'[e].outcome = "Accepted"
       /\ Len(duplicates') > Len(duplicates) =>
             \E e \in Events :
                /\ RecordsOf(e) = {}
                /\ handlers[e].outcome = "Matched"
                /\ handlers'[e].outcome = "Duplicate"
                /\ \A f \in Events \ {e} : handlers'[f] = handlers[f]
       /\ \A e \in Events :
             /\ handlers[e].outcome \in {"Accepted", "Duplicate"}
                   => handlers'[e].outcome = handlers[e].outcome
             /\ handlers[e].outcome = "Matched"
                   => handlers'[e].outcome \in {"Matched", "Duplicate"}]_vars

\* the first event was accepted with its record, and the second one, a
\* duplicate of it, left one duplicate event and no record
C28_Witness ==
    /\ handlers[1].pc = "accepted" /\ Cardinality(RecordsOf(1)) = 1
    /\ handlers[2].pc = "duplicate" /\ RecordsOf(2) = {}
    /\ handlers[2].mediaType = "photo"
    /\ Len(duplicates) = 1 /\ Len(sent) = 1 /\ sent[1].replyTo = 2

\* C29: whenever a duplicate is reported, the record named as the original
\* is of an event that arrived at the listener before the event flagged as
\* duplicate.
C29_OriginalArrivedFirst ==
    \A n \in 1..Len(sent) : sent[n].original < sent[n].replyTo

\* C29, the part that holds: the record named as the original was inserted
\* before the handler of the flagged event searched the collection, and is of
\* another event.
C29_OriginalStoredFirst ==
    \A n \in 1..Len(sent) :
        /\ sent[n].original /= sent[n].replyTo
        /\ RecordsOf(sent[n].original) /= {}

\* C30: when every external call of the handlers returns or fails, a media
\* event that arrived is eventually accepted, reported as duplicate,
\* ignored, or aborted with the error logged.
C30_EveryMediaEventIsResolved ==
    \A e \in Events :
        (handlers[e].pc /= "idle" /\ IsMedia(e)) ~> (handlers[e].pc \in Terminal)

\* one media event was aborted by a failed write of trackDuplicate, after
\* the notification; the other one was accepted
C30_Witness ==
    /\ handlers[1].pc = "accepted" /\ IsMedia(1)
    /\ handlers[2].pc = "aborted" /\ IsMedia(2)
    /\ Len(sent) = 1 /\ sent[1].replyTo = 2
    /\ Len(duplicates) = 0

----------------------------------------------------------------------------
(* Properties of commands and of the group check *)

\* update e is a text that starts with '/'
IsCommand(e) == handlers[e].command /= "none"
\* the step is one of the handler of update e
StepOf(e) == handlers'[e] /= handlers[e]

\* C31: no step of the handler of a message whose text starts with '/', a
\* command of the bot or not, and no step of the report that /stats runs,
\* changes a collection: userStats, textMessages, media and duplicates stay
\* as they are.
C31_CommandChangesNoCollection ==
    [][/\ \A e \in Events : (IsCommand(e) \/ IsCommand(e)') /\ StepOf(e)
              => StoreNow' = StoreNow
       /\ report' /= report => StoreNow' = StoreNow]_vars

\* a word that is no command was handled to the end, /stats was answered,
\* and the store holds nothing
C31_Witness ==
    /\ handlers[1].pc = "ignored" /\ handlers[1].command = "start"
    /\ handlers[2].pc = "replied" /\ handlers[2].command = "stats"
    /\ Len(sent) = 1 /\ report.pc = "sent"
    /\ userStats = << >> /\ textMessages = << >> /\ media = << >> /\ duplicates = << >>

\* C32: a message that is no command and comes from a chat for which
\* isGroup answered false, because the chat is no group or supergroup or
\* because the lookup of its type failed, is dropped: the only step its
\* handler takes after the update arrived is the one that returns, and that
\* step changes no collection and sends nothing.
C32_NonGroupMessageIsDropped ==
    [][\A e \in Events :
          (~IsCommand(e)' /\ handlers'[e].isValidGroup = "false" /\ StepOf(e)) =>
              /\ handlers[e].pc = "isGroup"
              /\ handlers'[e].pc = "dropped"
              /\ StoreNow' = StoreNow
              /\ sent' = sent]_vars

\* a photo and a text were dropped, and nothing was stored or sent
C32_Witness ==
    /\ handlers[1].pc = "dropped" /\ handlers[1].mediaType = "photo"
    /\ handlers[2].pc = "dropped" /\ handlers[2].mediaType = "text"
    /\ handlers[1].isValidGroup = "false" /\ handlers[2].isValidGroup = "false"
    /\ StoreNow = [media |-> << >>, userStats |-> << >>, duplicates |-> << >>,
                   textMessages |-> << >>, messageReactions |-> << >>]
    /\ sent = << >>

\* the records of the store that the lookup of event e can match, by the
\* conversation they were accepted in
Similar(e) ==
    {i \in 1..Len(media) :
        /\ IsPerceptualKind(media[i].mediaType)
        /\ Leq(calculateHashDistance(handlers[e].mediaHash, media[i].hash),
               Num(DefaultThreshold))}
Elsewhere(e) == {i \in Similar(e) : media[i].chatId /= handlers[e].chatId}

\* C33: the lookup reads the whole store, whatever the conversation: when
\* an image posted in one group has matching records only from other
\* groups, its lookup matches one of them, the notification goes to the
\* group of the new post and names the author of that record, and the
\* handler of the new post adds no record.
C33_LookupCoversAllChats ==
    [][\A e \in Events : StepOf(e) =>
          /\ (/\ handlers[e].pc = "find"
              /\ Elsewhere(e) /= {}
              /\ Similar(e) = Elsewhere(e))
                => /\ handlers'[e].pc = "send"
                   /\ \E i \in Elsewhere(e) : handlers'[e].existingMedia = media[i]
          /\ (handlers[e].pc = "send" /\ handlers[e].existingMedia.chatId /= handlers[e].chatId)
                => /\ Len(sent') = Len(sent) + 1
                   /\ sent'[Len(sent')].chatId = handlers[e].chatId
                   /\ sent'[Len(sent')].replyTo = e
                   /\ \E i \in 1..Len(media) :
                         /\ media[i].chatId /= handlers[e].chatId
                         /\ media[i].originalMessageId = sent'[Len(sent')].original
                         /\ media[i].userId = sent'[Len(sent')].posterMention
          /\ handlers[e].outcome = "Matched" => media' = media]_vars

\* user 1's photo was accepted in one group, user 2 posted it in the other
\* group and was told there that user 1 had posted it; one record is stored
C33_Witness ==
    /\ Len(media) = 1 /\ media[1].chatId = MainChat /\ media[1].userId = 1
    /\ handlers[1].pc = "accepted"
    /\ handlers[2].pc = "duplicate" /\ handlers[2].chatId /= MainChat
    /\ handlers[2].userId = 2
    /\ Len(sent) = 1 /\ sent[1].chatId = handlers[2].chatId
    /\ sent[1].posterMention = 1 /\ sent[1].original = 1

----------------------------------------------------------------------------
(* The weekly job: cron.schedule('0 12 * * 0', ...) *)

ChatTypes == {"group", "supergroup", "private"}
IsGroupType(type) == type = "group" \/ type = "supergroup"

\* the values TELEGRAM_GROUP_ID takes: not set, the id of a chat of the
\* store, the id of a chat the store has nothing of
GroupIds == {NoGroupId, String(TRUE, <<1, 0, 0, 1>>), String(TRUE, <<1, 0, 0, 3>>)}

RECURSIVE ValueOf(_)
ValueOf(digits) ==
    IF digits = << >> THEN 0
    ELSE 10 * ValueOf(SubSeq(digits, 1, Len(digits) - 1)) + digits[Len(digits)]

\* parseInt(string) of the decimal form of an integer
ParseInt(string) == IF string.minus THEN 0 - ValueOf(string.digits) ELSE ValueOf(string.digits)

\* array.includes(value) for a number
Includes(array, value) == \E i \in 1..Len(array) : array[i] = value

\* array.includes(string) for an array of numbers: a string is the same
\* value as no number
IncludesString(array, string) == \E i \in 1..Len(array) : FALSE

\* db.collection('media').distinct('chatId')
RECURSIVE Distinct(_, _, _)
Distinct(coll, i, found) ==
    IF i > Len(coll) THEN found
    ELSE Distinct(coll, i + 1,
                  IF Includes(found, coll[i].chatId) THEN found
                  ELSE Append(found, coll[i].chatId))

\* the test without parseInt
PostsToConfiguredAsString(c) ==
    /\ c.groupId /= NoGroupId
    /\ ~IncludesString(c.uniqueChats, c.groupId)

\* groupId && !uniqueChats.includes(parseInt(groupId)) && !uniqueChats.includes(groupId)
PostsToConfigured(c) ==
    /\ c.groupId /= NoGroupId
    /\ ~Includes(c.uniqueChats, ParseInt(c.groupId))
    /\ ~IncludesString(c.uniqueChats, c.groupId)

\* generateWeeklyStats as it is called, up to its first await
StartedReport ==
    [NoReport EXCEPT !.pc = "findMedia", !.run = report.run + 1, !.now = now,
                     !.oneWeekAgo = now - Week, !.store = StoreNow]

\* the chat the job is posting to
CronChat(c) ==
    IF c.pc = "generateConfigured" THEN ParseInt(c.groupId) ELSE c.uniqueChats[c.i]

\* after the loop over uniqueChats: the configured group, or the end
Configured(c, rep) ==
    IF PostsToConfigured(c)
    THEN <<[c EXCEPT !.pc = "generateConfigured", !.i = Len(c.uniqueChats) + 1], StartedReport>>
    ELSE <<[c EXCEPT !.pc = "done", !.i = Len(c.uniqueChats) + 1], rep>>

\* the job goes on after a chat: the next chat of the loop, the configured
\* group after the last one, the end after the configured group
After(c, rep) ==
    IF c.pc = "generateConfigured" THEN <<[c EXCEPT !.pc = "done"], rep>>
    ELSE IF c.i < Len(c.uniqueChats) THEN <<[c EXCEPT !.pc = "getChat", !.i = @ + 1], rep>>
    ELSE Configured(c, rep)

\* the job fires: await db.collection('media').distinct('chatId')
CronDistinct ==
    /\ cron.pc = "idle"
    /\ LET uniqueChats == Distinct(media, 1, << >>)
           c == [cron EXCEPT !.uniqueChats = uniqueChats]
           next == IF Len(uniqueChats) > 0
                   THEN <<[c EXCEPT !.pc = "getChat", !.i = 1], report>>
                   ELSE Configured(c, report)
       IN  cron' = next[1] /\ report' = next[2]
    /\ UNCHANGED <<hashVars, reactVars, chatTypes, responses, clock, media, userStats, duplicates,
                   textMessages, handlers, sent, now, query>>

\* distinct rejects: the outer catch logs the error
CronDistinctFails ==
    /\ cron.pc = "idle"
    /\ cron' = [cron EXCEPT !.pc = "failed"]
    /\ UNCHANGED <<hashVars, reactVars, chatTypes, responses, clock, report, media, userStats,
                   duplicates, textMessages, handlers, sent, now, query>>

\* await bot.getChat(chatId): a group or supergroup gets its statistics
\* generated, any other chat is passed over
CronGetChat ==
    /\ cron.pc = "getChat"
    /\ LET chat == [type |-> chatTypes[cron.uniqueChats[cron.i]]]
           next == IF chat.type = "group" \/ chat.type = "supergroup"
                   THEN <<[cron EXCEPT !.pc = "generateWeeklyStats"], StartedReport>>
                   ELSE After(cron, report)
       IN  cron' = next[1] /\ report' = next[2]
    /\ UNCHANGED <<hashVars, reactVars, chatTypes, responses, clock, media, userStats, duplicates,
                   textMessages, handlers, sent, now, query>>

\* getChat rejects: the catch of the loop body logs the error
CronGetChatFails ==
    /\ cron.pc = "getChat"
    /\ LET next == After([cron EXCEPT !.errors = @ \cup {CronChat(cron)}], report)
       IN  cron' = next[1] /\ report' = next[2]
    /\ UNCHANGED <<hashVars, reactVars, chatTypes, responses, clock, media, userStats, duplicates,
                   textMessages, handlers, sent, now, query>>

\* generateWeeklyStats has returned:
\* await bot.sendMessage(chatId, statsMessage, { parse_mode: 'HTML' })
CronSend ==
    /\ cron.pc \in {"generateWeeklyStats", "generateConfigured"}
    /\ report.pc = "done"
    /\ sent' = Append(sent, [chatId |-> CronChat(cron), text |-> report.message,
                             failed |-> report.failed])
    /\ LET next == After(cron, [report EXCEPT !.pc = "sent"])
       IN  cron' = next[1] /\ report' = next[2]
    /\ UNCHANGED <<hashVars, reactVars, chatTypes, responses, clock, media, userStats, duplicates,
                   textMessages, handlers, now, query>>

\* sendMessage rejects: the catch around the post logs the error
CronSendFails ==
    /\ cron.pc \in {"generateWeeklyStats", "generateConfigured"}
    /\ report.pc = "done"
    /\ LET next == After([cron EXCEPT !.errors = @ \cup {CronChat(cron)}],
                         [report EXCEPT !.pc = "aborted"])
       IN  cron' = next[1] /\ report' = next[2]
    /\ UNCHANGED <<hashVars, reactVars, chatTypes, responses, clock, media, userStats, duplicates,
                   textMessages, handlers, sent, now, query>>

\* generateWeeklyStats has rejected: the catch around the post logs the error
CronStatsFails ==
    /\ cron.pc \in {"generateWeeklyStats", "generateConfigured"}
    /\ report.pc = "aborted"
    /\ LET next == After([cron EXCEPT !.errors = @ \cup {CronChat(cron)}], report)
       IN  cron' = next[1] /\ report' = next[2]
    /\ UNCHANGED <<hashVars, reactVars, chatTypes, responses, clock, media, userStats, duplicates,
                   textMessages, handlers, sent, now, query>>

\* the media of the store when the job fires: photos of user 1 from the
\* chats of the sequence
CronMedia(chats) ==
    [i \in 1..Len(chats) |-> MediaDoc(<< >>, i, 1, "photo", 0, chats[i])]

CronInit ==
    /\ userStats = << >>
    /\ duplicates = << >>
    /\ textMessages = << >>
    /\ handlers = [e \in Events |-> NoHandler]
    /\ sent = << >>
    /\ now = 1
    /\ query = NoQuery
    /\ downloads = << >>
    /\ hashCalls = << >>
    /\ report = NoReport
    /\ messageReactions = << >>
    /\ reacted = NoReacted
    /\ updates = << >>
    /\ responses = << >>
    /\ clock = 0
    /\ \E n \in 0..MaxStore : \E chats \in [1..n -> Chats] : media = CronMedia(chats)
    /\ \E groupId \in GroupIds : cron = [NoCron EXCEPT !.groupId = groupId]
    /\ chatTypes \in [Chats -> ChatTypes]

CronNext ==
    \/ CronDistinct
    \/ CronDistinctFails
    \/ CronGetChat
    \/ CronGetChatFails
    \/ CronSend
    \/ CronSendFails
    \/ CronStatsFails
    \/ ReportFindMedia
    \/ ReportGetReactions
    \/ ReportGetReactionsFails
    \/ ReportFindTexts
    \/ ReportFindDuplicates
    \/ ReportFindFails

CronSpec == CronInit /\ [][CronNext]_vars

\* the messages of the job that a chat received
PostsTo(chat) == {n \in 1..Len(sent) : sent[n].chatId = chat}

\* C34: in a run of the weekly job no chat receives two digests, the
\* configured group included when it is among the chats found in media; a
\* found chat that is posted to is a group or a supergroup; and when the run
\* has ended, every found group or supergroup for which no failure was
\* logged has received its digest, whatever failed for the other chats.
C34_OneDigestPerGroup ==
    /\ \A n \in 1..Len(sent) : Cardinality(PostsTo(sent[n].chatId)) = 1
    /\ \A n \in 1..Len(sent) :
          Includes(cron.uniqueChats, sent[n].chatId) => IsGroupType(chatTypes[sent[n].chatId])
    /\ cron.pc = "done" =>
          \A i \in 1..Len(cron.uniqueChats) :
              LET chat == cron.uniqueChats[i] IN
              (IsGroupType(chatTypes[chat]) /\ chat \notin cron.errors) => PostsTo(chat) /= {}

\* the configured group is the second of two groups found; the post to the
\* first failed, the second got the one digest of the run
C34_Witness ==
    /\ cron.pc = "done"
    /\ cron.groupId = String(TRUE, <<1, 0, 0, 1>>)
    /\ cron.uniqueChats = <<0 - 1002, 0 - 1001>>
    /\ IsGroupType(chatTypes[0 - 1002])
    /\ cron.errors = {0 - 1002}
    /\ Len(sent) = 1 /\ sent[1].chatId = 0 - 1001

----------------------------------------------------------------------------
(* The totals of the report and the counts they are made of *)

\* the sum of the values of a function over a set of its arguments
RECURSIVE SumOver(_, _)
SumOver(f, S) ==
    IF S = {} THEN 0
    ELSE LET x == CHOOSE y \in S : TRUE IN f[x] + SumOver(f, S \ {x})

\* the media of a kind that a user has among the documents counted
OfKind(idx, userId, mediaType) ==
    {i \in ByUser(media, idx, userId) : media[i].mediaType = mediaType}

\* C35: in the weekly report the total of a user is the sum of the user's
\* photos, videos, image documents and texts of the window; the totals of
\* the media breakdown that are printed, photos, videos and texts, are the
\* sums of the users' counts; and a user's duplicates add to no total: a
\* user with nothing but duplicates in the window is no contributor.
C35_TotalsAreSumsOfCounts ==
    report.pc = "done" =>
        LET m == Counted(media, report.read.media)
            t == Counted(textMessages, report.read.textMessages)
            stats == [u \in Users |->
                         UserWeeklyStats(report.weeklyMedia, report.weeklyTextMessages, u)]
        IN  /\ \A u \in Users :
                  /\ stats[u].photoCount = Cardinality(OfKind(m, u, "photo"))
                  /\ stats[u].videoCount = Cardinality(OfKind(m, u, "video"))
                  /\ stats[u].documentCount = Cardinality(OfKind(m, u, "document"))
                  /\ stats[u].textCount = Cardinality(ByUser(textMessages, t, u))
                  /\ Shown(report.message.topContributors, u, "totalMessages")
                        = stats[u].photoCount + stats[u].videoCount
                            + stats[u].documentCount + stats[u].textCount
                  /\ (ByUser(media, m, u) = {} /\ ByUser(textMessages, t, u) = {})
                        => \A i \in 1..Len(report.message.topContributors) :
                              report.message.topContributors[i].userId /= u
            /\ report.message.totalPhotos
                  = SumOver([u \in Users |-> stats[u].photoCount], Users)
            /\ report.message.totalVideos
                  = SumOver([u \in Users |-> stats[u].videoCount], Users)
            /\ report.message.totalTexts
                  = SumOver([u \in Users |-> stats[u].textCount], Users)

\* user 1 posted an image document and a duplicate in the window: the total
\* of user 1 is 1, and the breakdown prints no photo, video or text
C35_Witness ==
    /\ report.pc = "done"
    /\ Len(media) = 1 /\ media[1].mediaType = "document" /\ media[1].userId = 1
    /\ Len(duplicates) = 1 /\ duplicates[1].userId = 1
    /\ Len(report.weeklyDuplicates) = 1
    /\ report.message.topContributors = <<[userId |-> 1, totalMessages |-> 1]>>
    /\ report.message.totalPhotos = 0 /\ report.message.totalVideos = 0
    /\ report.message.totalTexts = 0

----------------------------------------------------------------------------
(* The dates of a userStats document *)

MaxDate == 2

\* time passes between two steps of the handlers
ClockTick ==
    /\ clock < MaxDate
    /\ clock' = clock + 1
    /\ UNCHANGED <<cron, chatTypes, responses, hashVars, reactVars, report, media, userStats,
                   duplicates, textMessages, handlers, sent, now, query>>

SeenNext ==
    \/ \E e \in Events, p \in PhotoPosts : \E u \in Authors(e) :
          ReceiveMedia(e, MainChat, u, p[1], p[2])
    \/ \E e \in Events : \E u \in Authors(e) : ReceiveText(e, u)
    \/ \E e \in Events : IsGroupTrue(e)
    \/ \E e \in Events : IsGroupFalse(e)
    \/ \E e \in Events : Fetch(e)
    \/ \E e \in Events : Hash(e)
    \/ \E e \in Events : Find(e)
    \/ \E e \in Events : Send(e)
    \/ \E e \in Events : TrackUpdate(e)
    \/ \E e \in Events : TrackInsert(e)
    \/ \E e \in Events : InsertMedia(e)
    \/ \E e \in Events : StatsFind(e)
    \/ \E e \in Events : StatsWrite(e)
    \/ \E e \in Events : TextInsert(e)
    \/ ClockTick

SeenSpec == Init /\ [][SeenNext]_vars

Counters ==
    {"photoCount", "videoCount", "documentCount", "textCount", "duplicatesPosted",
     "totalMessages"}

\* no step removes a userStats document, gives it to another user or takes
\* from one of its counters, a counter the document does not have counting
\* as 0
CountersGrow ==
    /\ Len(userStats') >= Len(userStats)
    /\ \A i \in 1..Len(userStats) :
          /\ userStats'[i].userId = userStats[i].userId
          /\ \A f \in Counters : Val(userStats'[i][f]) >= Val(userStats[i][f])
    /\ \A i \in 1..Len(userStats') : \A f \in Counters : Val(userStats'[i][f]) >= 0

\* a document that has firstSeen has it not later than lastActive
SeenInOrder(doc) == doc.firstSeen /= Absent => doc.firstSeen <= doc.lastActive

\* C36: every counter of a userStats document is non-negative and no step
\* decreases it, and firstSeen of a document is never later than its
\* lastActive.
C36_CountersGrowAndSeenInOrder ==
    [][/\ CountersGrow
       /\ \A i \in 1..Len(userStats') : SeenInOrder(userStats'[i])]_vars

\* C36, the part that holds: the counters are non-negative and never
\* decrease.
C36_CountersNeverDecrease == [][CountersGrow]_vars

\* a document counted a photo and then a duplicate of its user
C36_Witness ==
    /\ Len(userStats) = 1
    /\ userStats[1].photoCount = 1 /\ userStats[1].duplicatesPosted = 1
    /\ userStats[1].totalMessages = 1
    /\ handlers[1].pc = "accepted" /\ handlers[2].pc = "duplicate"

----------------------------------------------------------------------------
(* Webhook mode: app.post('/webhook', ...) *)

\* the route without try and catch: the error reaches the error handler of
\* the framework, which answers 500
RespondUncaught(e, thrown) == [update |-> e, status |-> IF thrown THEN 500 ELSE 200]

\* the answer of the route, whether the try block threw or not: a thrown
\* error is caught and logged, then res.sendStatus(200)
Respond(e, thrown) == [update |-> e, status |-> 200]

\* the runs of the 'message' listener that bot.processUpdate starts; the
\* listener runs up to its first await inside processUpdate
Dispatched(e) ==
    {Handler("isGroup", MainChat, u, "photo", "X") : u \in Authors(e)}
        \cup {Handler("isGroup", MainChat, u, "text", "none") : u \in Authors(e)}

\* Telegram posts update e to /webhook: the try block runs
\* bot.processUpdate(req.body), which starts the listener or throws, and the
\* route answers
Webhook(e, h, thrown) ==
    /\ handlers[e].pc = "idle"
    /\ IsNextUpdate(e)
    /\ Listening
    /\ handlers' = [handlers EXCEPT
          ![e] = IF thrown THEN [NoHandler EXCEPT !.pc = "aborted"] ELSE h]
    /\ responses' = Append(responses, Respond(e, thrown))
    /\ UNCHANGED <<cron, chatTypes, clock, hashVars, reactVars, report, media, userStats,
                   duplicates, textMessages, sent, now, query>>

WebhookNext ==
    \/ \E e \in Events, thrown \in BOOLEAN : \E h \in Dispatched(e) : Webhook(e, h, thrown)
    \/ \E e \in Events : IsGroupTrue(e)
    \/ \E e \in Events : IsGroupFalse(e)
    \/ \E e \in Events : Fetch(e)
    \/ \E e \in Events : Hash(e)
    \/ \E e \in Events : Find(e)
    \/ \E e \in Events : Send(e)
    \/ \E e \in Events : TrackUpdate(e)
    \/ \E e \in Events : TrackInsert(e)
    \/ \E e \in Events : InsertMedia(e)
    \/ \E e \in Events : StatsFind(e)
    \/ \E e \in Events : StatsWrite(e)
    \/ \E e \in Events : TextInsert(e)
    \/ \E e \in Events : Throw(e)

WebhookSpec == Init /\ [][WebhookNext]_vars

\* the answers the endpoint gave to update e
AnswersTo(e) == {n \in 1..Len(responses) : responses[n].update = e}

\* C37: in webhook mode every update posted to /webhook is answered once,
\* with status 200, also when bot.processUpdate throws and when the
\* listener fails later; an update that has not arrived has no answer.
C37_EveryUpdateAnswered200Once ==
    \A e \in Events :
        IF handlers[e].pc = "idle" THEN AnswersTo(e) = {}
        ELSE /\ Cardinality(AnswersTo(e)) = 1
             /\ \A n \in AnswersTo(e) : responses[n].status = 200

\* processUpdate threw for the first update, the listener of the second
\* failed at an await: both were answered 200
C37_Witness ==
    /\ handlers[1].pc = "aborted" /\ handlers[1].mediaType = "none"
    /\ handlers[2].pc = "aborted" /\ handlers[2].mediaType = "photo"
    /\ responses = <<[update |-> 1, status |-> 200], [update |-> 2, status |-> 200]>>

====
